---------------------------- MODULE Spec2Model ----------------------------
(***************************************************************************)
(* Model of the gold layer of the supply-chain pipeline                    *)
(* (src/3-gold/gold_layer_processor.py, src/3-gold/gold_layer_launcher.py).*)
(*                                                                         *)
(* A table (pandas DataFrame) is [cols |-> set of column names,            *)
(* rows |-> sequence of functions cols -> cell].  Cells are naturals; the  *)
(* missing value (NaN / NaT) is the cell NaN.  A float quotient a / b is   *)
(* kept exact as the pair <<a, b>>.  A timestamp is a number of ticks,     *)
(* TicksPerDay ticks to the calendar day, day 0 being 1970-01-01.  A blob  *)
(* name is a sequence of characters, so the substring tests of the code    *)
(* are computed on it.                                                     *)
(***************************************************************************)
EXTENDS Integers, Sequences, FiniteSets, TLC

VARIABLES
    silver,           \* the silver container: blobs in listing order
    now,              \* the wall clock, in ticks
    mode,             \* the launcher's command line mode
    pc,               \* position of the run
    self_dimensions,  \* GoldLayerProcessor.dimensions
    self_facts,       \* GoldLayerProcessor.facts
    self_kpis,        \* GoldLayerProcessor.kpis
    out,              \* the tables returned by the stage that ran last
    todo,             \* names of `out` the upload loop has not visited yet
    stats,            \* the statistics record of process_silver_to_gold
    gold,             \* the gold container: path -> table
    run,              \* number of runs completed on this processor
    built,            \* per completed run, the tables each stage returned
    processed_files,  \* GoldLayerProcessor.processed_files
    workers,          \* the runs of several processors at once, one record each
    incoming,         \* blobs the silver stage has still to write
    bronze,           \* the bronze container: blob name -> content
    silver_container, \* the silver container as the silver stage writes it
    silver_processor, \* the SilverLayerProcessor: position, fields, statistics
    silver_metadata,  \* silver_layer_metadata.json
    raw_data,         \* the raw_data directory: file name -> lines
    bronze_processor, \* the BronzeLayerProcessor: position, fields, statistics
    bronze_metadata,  \* bronze_layer_metadata.json
    monitor           \* the BronzeLayerEventHandler and its timer threads

vars == <<silver, now, mode, pc, self_dimensions, self_facts, self_kpis,
          out, todo, stats, gold, run, built, processed_files,
          workers, incoming, bronze, silver_container, silver_processor,
          silver_metadata, raw_data, bronze_processor, bronze_metadata, monitor>>

\* the silver stage
silver_stage == <<bronze, silver_container, silver_processor, silver_metadata>>

\* the bronze stage
bronze_stage == <<raw_data, bronze_processor, bronze_metadata, monitor>>

\* the state of the programs beside the one gold processor
stages == <<workers, incoming, silver_stage, bronze_stage>>

\* the bronze stage is not running
BronzeIdle ==
    /\ raw_data = <<>>
    /\ bronze_processor = <<>>
    /\ bronze_metadata = <<>>
    /\ monitor = <<>>

\* no other program is running
StagesIdle ==
    /\ workers = <<>>
    /\ incoming = <<>>
    /\ bronze = <<>>
    /\ silver_container = <<>>
    /\ silver_processor = <<>>
    /\ silver_metadata = <<>>
    /\ BronzeIdle

----------------------------------------------------------------------------
(* Bounds of the model *)

MaxRows == 2
MaxUploadFailures == 1
MaxRuns == 2
MaxAsOfDays == 3
TicksPerDay == 2
BaseDay == 19781    \* 2024-02-28, the first clock reading's day

----------------------------------------------------------------------------
(* Cells, quotients, sequences *)

NaN == -1

\* the cell that stands for the order_status text 'fulfilled'
Fulfilled == 1

Quot(a, b) == <<a, b>>

Mul(a, b) == IF a = NaN \/ b = NaN THEN NaN ELSE a * b

RECURSIVE SumSeq(_)
SumSeq(s) == IF s = <<>> THEN 0 ELSE Head(s) + SumSeq(Tail(s))

NotNull(s) == SelectSeq(s, LAMBDA v : v # NaN)

\* Series.sum(): missing values are skipped
ColSum(rows, c) == SumSeq(NotNull([i \in 1..Len(rows) |-> rows[i][c]]))

\* Series.count(): the number of values that are not missing
ColCount(rows, c) == Len(NotNull([i \in 1..Len(rows) |-> rows[i][c]]))

\* Series.mean(): missing values are skipped
ColMean(rows, c) == Quot(ColSum(rows, c), ColCount(rows, c))

RECURSIVE SortedSeq(_)
SortedSeq(S) ==
    IF S = {} THEN <<>>
    ELSE LET m == CHOOSE x \in S : \A y \in S : x <= y
         IN  <<m>> \o SortedSeq(S \ {m})

RECURSIVE Flatten(_)
Flatten(ss) == IF ss = <<>> THEN <<>> ELSE Head(ss) \o Flatten(Tail(ss))

Range(s) == {s[i] : i \in 1..Len(s)}

----------------------------------------------------------------------------
(* Tables *)

EmptyDict == [n \in {} |-> <<>>]

Put(d, k, v) == [x \in (DOMAIN d) \cup {k} |-> IF x = k THEN v ELSE d[x]]

Update(d, e) == [x \in (DOMAIN d) \cup (DOMAIN e) |->
                    IF x \in DOMAIN e THEN e[x] ELSE d[x]]

\* df[available_cols] with available_cols = [col for col in allow if col in df.columns]
Project(t, allow) ==
    LET c == t.cols \cap allow
    IN  [cols |-> c,
         rows |-> [i \in 1..Len(t.rows) |-> [x \in c |-> t.rows[i][x]]]]

\* DataFrame.drop_duplicates(): the first of equal rows is kept, order is kept
RECURSIVE DedupRows(_, _)
DedupRows(rows, seen) ==
    IF rows = <<>> THEN <<>>
    ELSE IF Head(rows) \in seen THEN DedupRows(Tail(rows), seen)
    ELSE <<Head(rows)>> \o DedupRows(Tail(rows), seen \cup {Head(rows)})

DropDuplicates(t) == [cols |-> t.cols, rows |-> DedupRows(t.rows, {})]

\* one frame's rows widened to the columns of the union, NaN where it had none
Widen(t, cols) ==
    [i \in 1..Len(t.rows) |->
        [x \in cols |-> IF x \in t.cols THEN t.rows[i][x] ELSE NaN]]

\* pd.concat(frames, ignore_index=True)
Concat(ts) ==
    LET cols == UNION {ts[i].cols : i \in 1..Len(ts)}
    IN  [cols |-> cols,
         rows |-> Flatten([i \in 1..Len(ts) |-> Widen(ts[i], cols)])]

\* the rows of a table; a table held by the clock reading that generated it
\* (the time dimension) has the rows that reading determines
TableRows(t, generated) ==
    IF "generated_at" \in DOMAIN t THEN generated[t.generated_at] ELSE t.rows

\* an inner join: a left row with no match is dropped
MergeRowInner(l, rightRows, keep, key) ==
    LET hits == SelectSeq(rightRows, LAMBDA r : r[key] = l[key])
        cols == DOMAIN l \cup keep
    IN  [j \in 1..Len(hits) |->
            [x \in cols |-> IF x \in DOMAIN l THEN l[x] ELSE hits[j][x]]]

\* left.merge(right[keep], on=key, how='left'): every left row, once per right
\* row with the same key, or once with NaN in the added columns when none has it
MergeRow(l, rightRows, keep, key) ==
    LET hits == SelectSeq(rightRows, LAMBDA r : r[key] = l[key])
        cols == DOMAIN l \cup keep
    IN  IF hits = <<>>
        THEN << [x \in cols |-> IF x \in DOMAIN l THEN l[x] ELSE NaN] >>
        ELSE [j \in 1..Len(hits) |->
                [x \in cols |-> IF x \in DOMAIN l THEN l[x] ELSE hits[j][x]]]

MergeLeft(left, rightRows, keep, key) ==
    [cols |-> left.cols \cup keep,
     rows |-> Flatten([i \in 1..Len(left.rows) |->
                          MergeRow(left.rows[i], rightRows, keep, key)])]

----------------------------------------------------------------------------
(* The calendar: what pandas derives from a timestamp *)

DayOf(ts) == ts \div TicksPerDay

\* proleptic Gregorian date of a day number
Civil(day) ==
    LET z   == day + 719468
        era == z \div 146097
        doe == z - era * 146097
        yoe == (doe - doe \div 1460 + doe \div 36524 - doe \div 146096) \div 365
        doy == doe - (365 * yoe + yoe \div 4 - yoe \div 100)
        mp  == (5 * doy + 2) \div 153
        d   == doy - (153 * mp + 2) \div 5 + 1
        m   == IF mp < 10 THEN mp + 3 ELSE mp - 9
        y   == yoe + era * 400 + (IF m <= 2 THEN 1 ELSE 0)
    IN  [year |-> y, month |-> m, day |-> d]

IsLeap(y) == (y % 4 = 0 /\ y % 100 # 0) \/ y % 400 = 0

DaysBefore(y, m) ==
    LET cum == <<0, 31, 59, 90, 120, 151, 181, 212, 243, 273, 304, 334>>
    IN  cum[m] + (IF m > 2 /\ IsLeap(y) THEN 1 ELSE 0)

MonthNames == <<"January", "February", "March", "April", "May", "June", "July",
                "August", "September", "October", "November", "December">>

DayNames == <<"Monday", "Tuesday", "Wednesday", "Thursday", "Friday",
              "Saturday", "Sunday">>

\* dates.dayofweek: Monday is 0; 1970-01-01 was a Thursday
DayOfWeek(day) == (day + 3) % 7

\* day number of 1 January of year y
JanFirst(y) ==
    LET p == y - 1
    IN  365 * p + p \div 4 - p \div 100 + p \div 400 - 719162

\* strftime('%Y%m%d').astype(int)
DateKey(day) ==
    LET c == Civil(day) IN c.year * 10000 + c.month * 100 + c.day

\* Series.dt.to_period('M'), as year * 100 + month
YearMonth(day) ==
    LET c == Civil(day) IN c.year * 100 + c.month

----------------------------------------------------------------------------
(* Blob names and the substring tests made on them *)

\* str.endswith
EndsWith(s, suffix) ==
    /\ Len(s) >= Len(suffix)
    /\ SubSeq(s, Len(s) - Len(suffix) + 1, Len(s)) = suffix

\* the Python test `token in s`: token is a substring of s, letter case kept
Contains(s, token) ==
    \E i \in 1..(Len(s) - Len(token) + 1) :
        SubSeq(s, i, i + Len(token) - 1) = token

\* str.replace(old, ''): every occurrence of old is removed
RECURSIVE Remove(_, _)
Remove(s, old) ==
    IF Len(s) < Len(old) THEN s
    ELSE IF SubSeq(s, 1, Len(old)) = old
         THEN Remove(SubSeq(s, Len(old) + 1, Len(s)), old)
         ELSE <<Head(s)>> \o Remove(Tail(s), old)

SilverSuffix == <<"_", "s", "i", "l", "v", "e", "r", ".", "c", "s", "v">>
TokOrders == <<"o", "r", "d", "e", "r", "s">>
TokOrderItems == <<"o", "r", "d", "e", "r", "_", "i", "t", "e", "m", "s">>
TokVehicles == <<"v", "e", "h", "i", "c", "l", "e", "s">>
TokSuppliers == <<"s", "u", "p", "p", "l", "i", "e", "r", "s">>
TokWarehouses == <<"w", "a", "r", "e", "h", "o", "u", "s", "e", "s">>
TokPerformance == <<"p", "e", "r", "f", "o", "r", "m", "a", "n", "c", "e">>
TokFuel == <<"f", "u", "e", "l">>
TokInventory == <<"i", "n", "v", "e", "n", "t", "o", "r", "y">>

\* a scan that skips the blobs the processing metadata already lists
FramesUnprocessed(blobs) ==
    SelectSeq(blobs, LAMBDA b : /\ EndsWith(b.name, SilverSuffix)
                                /\ b.readable
                                /\ b.name \notin DOMAIN processed_files)

\* a scan that the first failed download ends
FramesUntilUnreadable(blobs) ==
    LET bad == {i \in 1..Len(blobs) :
                   EndsWith(blobs[i].name, SilverSuffix) /\ ~ blobs[i].readable}
        upto == IF bad = {} THEN Len(blobs)
                ELSE (CHOOSE i \in bad : \A j \in bad : i <= j) - 1
    IN  SelectSeq(SubSeq(blobs, 1, upto), LAMBDA b : EndsWith(b.name, SilverSuffix))

\* the frames a scan of the container works on: the blobs whose name ends in
\* _silver.csv and whose download and parse gave a DataFrame, in listing order
Frames(blobs) ==
    SelectSeq(blobs, LAMBDA b : EndsWith(b.name, SilverSuffix) /\ b.readable)

----------------------------------------------------------------------------
(* _create_time_dimension *)

TIME_WINDOW_DAYS == 730

WeeksInYear(y) ==
    LET jan1 == DayOfWeek(JanFirst(y))
    IN  IF jan1 = 3 \/ (jan1 = 2 /\ IsLeap(y)) THEN 53 ELSE 52

\* dates.isocalendar().week
IsoWeek(day) ==
    LET c   == Civil(day)
        doy == DaysBefore(c.year, c.month) + c.day
        w   == (doy - (DayOfWeek(day) + 1) + 10) \div 7
    IN  IF w < 1 THEN WeeksInYear(c.year - 1)
        ELSE IF w > WeeksInYear(c.year) THEN 1
        ELSE w

TimeRow(ts) ==
    LET day == DayOf(ts)
        c   == Civil(day)
    IN  [date_key       |-> DateKey(day),
         date           |-> ts,
         year           |-> c.year,
         quarter        |-> ((c.month - 1) \div 3) + 1,
         month          |-> c.month,
         month_name     |-> MonthNames[c.month],
         week           |-> IsoWeek(day),
         day_of_year    |-> DaysBefore(c.year, c.month) + c.day,
         day_of_month   |-> c.day,
         day_of_week    |-> DayOfWeek(day),
         day_name       |-> DayNames[DayOfWeek(day) + 1],
         is_weekend     |-> DayOfWeek(day) \in {5, 6},
         is_holiday     |-> FALSE,
         fiscal_year    |-> c.year,
         fiscal_quarter |-> ((c.month - 1) \div 3) + 1]

TimeCols == {"date_key", "date", "year", "quarter", "month", "month_name",
             "week", "day_of_year", "day_of_month", "day_of_week", "day_name",
             "is_weekend", "is_holiday", "fiscal_year", "fiscal_quarter"}

\* pd.date_range(start, end, freq='D'): start, start + 1 day, ... while <= end
DateRange(start, end) ==
    [i \in 1..((end - start) \div TicksPerDay + 1) |->
        start + (i - 1) * TicksPerDay]

\* a window one day short
WindowStartShort(end_date) == end_date - (TIME_WINDOW_DAYS - 1) * TicksPerDay

WindowStart(end_date) == end_date - TIME_WINDOW_DAYS * TicksPerDay

\* the rows of the DataFrame _create_time_dimension builds at end_date
TimeDimensionRows(end_date) ==
    LET dates == DateRange(WindowStart(end_date), end_date)
    IN  [i \in 1..Len(dates) |-> TimeRow(dates[i])]

\* The time dimension is held by the clock reading it was generated at, which
\* determines it; Rows gives the rows of any table.
CreateTimeDimension(end_date) == [cols |-> TimeCols, generated_at |-> end_date]

\* the clock readings a behaviour can see
ClockReadings ==
    (BaseDay * TicksPerDay) ..
        ((BaseDay + MaxAsOfDays + MaxRuns + 1) * TicksPerDay)

TimeRowsAt == [n \in ClockReadings |-> TimeDimensionRows(n)]

Rows(t) == TableRows(t, TimeRowsAt)

Expand(t) == [cols |-> t.cols, rows |-> Rows(t)]

----------------------------------------------------------------------------
(* _create_dimension_tables *)

CustomerCols == {"customer_id", "customer_name", "customer_email",
                 "customer_phone", "customer_type"}
ProductCols == {"product_id", "product_name", "product_category",
                "product_price", "product_weight"}
VehicleCols == {"vehicle_id", "vehicle_type", "make", "model", "year",
                "capacity", "fuel_type"}
SupplierCols == {"supplier_id", "supplier_name", "contact_person", "email",
                 "phone", "rating"}
WarehouseCols == {"warehouse_id", "warehouse_name", "location", "city",
                  "country", "capacity"}
GeoTriggerCols == {"city", "country", "latitude", "longitude"}
GeoCols == {"city", "country", "latitude", "longitude", "region"}

\* the branch of the if / elif chain on the blob name a frame falls into
DimBranch(name) ==
    IF Contains(name, TokOrders) \/ Contains(name, TokOrderItems) THEN "orders"
    ELSE IF Contains(name, TokVehicles) THEN "vehicles"
    ELSE IF Contains(name, TokSuppliers) THEN "suppliers"
    ELSE IF Contains(name, TokWarehouses) THEN "warehouses"
    ELSE "none"

\* whether a frame contributes to a dimension category
FeedsDimension(b, category) ==
    CASE category = "customer" ->
            /\ DimBranch(b.name) = "orders"
            /\ "customer" \in b.table.cols
            /\ b.table.cols \cap CustomerCols # {}
      [] category = "product" ->
            /\ DimBranch(b.name) = "orders"
            /\ "product" \in b.table.cols
            /\ b.table.cols \cap ProductCols # {}
      [] category = "vehicle" ->
            /\ DimBranch(b.name) = "vehicles"
            /\ b.table.cols \cap VehicleCols # {}
      [] category = "supplier" ->
            /\ DimBranch(b.name) = "suppliers"
            /\ b.table.cols \cap SupplierCols # {}
      [] category = "warehouse" ->
            /\ DimBranch(b.name) = "warehouses"
            /\ b.table.cols \cap WarehouseCols # {}
      [] category = "geography" ->
            b.table.cols \cap GeoTriggerCols # {}

DimAllow(category) ==
    CASE category = "customer" -> CustomerCols
      [] category = "product" -> ProductCols
      [] category = "vehicle" -> VehicleCols
      [] category = "supplier" -> SupplierCols
      [] category = "warehouse" -> WarehouseCols
      [] category = "geography" -> GeoCols

\* what one frame appends to <category>_data
DimContribution(b, category) ==
    DropDuplicates(Project(b.table, DimAllow(category)))

\* <category>_data after the loop over the blobs
DimData(frames, category) ==
    LET feeding == SelectSeq(frames, LAMBDA b : FeedsDimension(b, category))
    IN  [i \in 1..Len(feeding) |-> DimContribution(feeding[i], category)]

\* the concatenation kept as it is, duplicates included
DimUnionAll(data) == Concat(data)

\* pd.concat(data, ignore_index=True).drop_duplicates()
DimUnion(data) == DropDuplicates(Concat(data))

\* range(len(dim)), the value for the row at position i
SurrogateKeyFromZero(i) == i - 1

\* range(1, len(dim) + 1), the value for the row at position i
SurrogateKey(i) == i

\* the table stored under dim_<category>
BuildDimension(data, category) ==
    LET t   == DimUnion(data)
        key == category \o "_key"
    IN  [cols |-> t.cols \cup {key},
         rows |-> [i \in 1..Len(t.rows) |->
                     [x \in t.cols \cup {key} |->
                         IF x = key THEN SurrogateKey(i) ELSE t.rows[i][x]]]]

DimCategories == <<"customer", "product", "vehicle", "supplier", "warehouse",
                   "geography">>

DimName(category) == "dim_" \o category

\* the dictionary _create_dimension_tables returns
CreateDimensionTables(blobs, end_date) ==
    LET frames == Frames(blobs)
        made   == {c \in Range(DimCategories) : DimData(frames, c) # <<>>}
    IN  [n \in {DimName(c) : c \in made} \cup {"dim_time"} |->
            IF n = "dim_time" THEN CreateTimeDimension(end_date)
            ELSE LET c == CHOOSE c \in made : DimName(c) = n
                 IN  BuildDimension(DimData(frames, c), c)]

\* insertion order of the dictionary, which the upload loop follows
DimOrder == <<"dim_customer", "dim_product", "dim_vehicle", "dim_supplier",
              "dim_warehouse", "dim_geography", "dim_time">>

----------------------------------------------------------------------------
(* _create_fact_tables *)

OrdersFactCols == {"order_id", "customer_id", "product_id", "order_date",
                   "quantity", "unit_price", "total_amount"}
PerformanceFactCols == {"vehicle_id", "date", "distance_traveled",
                        "fuel_consumed", "delivery_time", "efficiency_score"}
FuelFactCols == {"vehicle_id", "date", "fuel_type", "fuel_consumed", "cost",
                 "efficiency"}
InventoryFactCols == {"product_id", "warehouse_id", "date", "quantity_on_hand",
                      "quantity_ordered", "quantity_sold"}

\* the branch of the if / elif chain on the blob name a frame falls into
FactBranch(name) ==
    IF Contains(name, TokOrders) THEN "orders"
    ELSE IF Contains(name, TokPerformance) THEN "performance"
    ELSE IF Contains(name, TokFuel) THEN "fuel_consumption"
    ELSE IF Contains(name, TokInventory) THEN "inventory"
    ELSE "none"

FactAllow(category) ==
    CASE category = "orders" -> OrdersFactCols
      [] category = "performance" -> PerformanceFactCols
      [] category = "fuel_consumption" -> FuelFactCols
      [] category = "inventory" -> InventoryFactCols

FeedsFact(b, category) ==
    /\ FactBranch(b.name) = category
    /\ b.table.cols \cap FactAllow(category) # {}

\* what one frame appends to <category>_data: df[available_cols]
FactContribution(b, category) == Project(b.table, FactAllow(category))

FactData(frames, category) ==
    LET feeding == SelectSeq(frames, LAMBDA b : FeedsFact(b, category))
    IN  [i \in 1..Len(feeding) |-> FactContribution(feeding[i], category)]

\* the concatenation with repeated rows dropped
FactUnionDistinct(data) == DropDuplicates(Concat(data))

\* pd.concat(data, ignore_index=True)
FactUnion(data) == Concat(data)

\* whether the `Add calculated fields` assignment of fact_orders is made
DerivesTotal(t) == "quantity" \in t.cols /\ "unit_price" \in t.cols

\* fact_orders['total_amount'] = fact_orders['quantity'] * fact_orders['unit_price']
AddTotalAmount(t) ==
    IF DerivesTotal(t)
    THEN [cols |-> t.cols \cup {"total_amount"},
          rows |-> [i \in 1..Len(t.rows) |->
                      [x \in t.cols \cup {"total_amount"} |->
                          IF x = "total_amount"
                          THEN Mul(t.rows[i]["quantity"], t.rows[i]["unit_price"])
                          ELSE t.rows[i][x]]]]
    ELSE t

BuildFact(data, category) ==
    IF category = "orders" THEN AddTotalAmount(FactUnion(data))
    ELSE FactUnion(data)

FactCategories == <<"orders", "performance", "fuel_consumption", "inventory">>

FactName(category) == "fact_" \o category

\* the dictionary _create_fact_tables returns
CreateFactTables(blobs) ==
    LET frames == Frames(blobs)
        made   == {c \in Range(FactCategories) : FactData(frames, c) # <<>>}
    IN  [n \in {FactName(c) : c \in made} |->
            LET c == CHOOSE c \in made : FactName(c) = n
            IN  BuildFact(FactData(frames, c), c)]

FactOrder == <<"fact_orders", "fact_performance", "fact_fuel_consumption",
               "fact_inventory">>

----------------------------------------------------------------------------
(* _calculate_kpis *)

\* pd.to_datetime(column, errors='coerce'): a cell that is no date becomes NaT
ToDatetime(v) == IF v >= 0 THEN v ELSE NaN

\* the copy of fact_orders the revenue KPIs are computed from: total_amount
\* ensured, order_date parsed (NaT everywhere when the column is missing)
OrdersForRevenue(fact) ==
    LET cols == fact.cols \cup {"total_amount", "order_date"}
    IN  [cols |-> cols,
         rows |-> [i \in 1..Len(fact.rows) |->
            [x \in cols |->
                CASE x = "total_amount" /\ x \notin fact.cols ->
                        IF DerivesTotal(fact)
                        THEN Mul(fact.rows[i]["quantity"], fact.rows[i]["unit_price"])
                        ELSE 0
                  [] x = "order_date" ->
                        IF x \in fact.cols THEN ToDatetime(fact.rows[i][x]) ELSE NaN
                  [] OTHER -> fact.rows[i][x]]]]

\* dropna(subset=['order_date'])
DropUndated(t) ==
    [cols |-> t.cols, rows |-> SelectSeq(t.rows, LAMBDA r : r["order_date"] # NaN)]

\* the quotient taken without looking at order_count
AvgOrderValueUnguarded(revenue, order_count) == Quot(revenue, order_count)

\* the lambda deriving avg_order_value from a row's revenue and order_count
AvgOrderValue(revenue, order_count) ==
    IF order_count # 0 THEN Quot(revenue, order_count) ELSE Quot(0, 1)

\* the monthly grouping keyed by the day, not regrouped
RevenueKeyByDay(grain, ts) == DayOf(ts)

\* the group key of an order date: .dt.date, or .dt.to_period('M')
RevenueKey(grain, ts) ==
    IF grain = "date" THEN DayOf(ts) ELSE YearMonth(DayOf(ts))

\* groupby(key of the order date).agg(total_amount: sum, order_id: count),
\* one row per key, keys ascending, then the avg_order_value column
RevenueBy(t, grain, revenueCol) ==
    LET keys == SortedSeq({RevenueKey(grain, t.rows[i]["order_date"]) :
                              i \in 1..Len(t.rows)})
        cols == {grain, revenueCol, "order_count", "avg_order_value"}
    IN  [cols |-> cols,
         rows |-> [k \in 1..Len(keys) |->
            LET grp == SelectSeq(t.rows,
                          LAMBDA r : RevenueKey(grain, r["order_date"]) = keys[k])
                rev == ColSum(grp, "total_amount")
                cnt == ColCount(grp, "order_id")
            IN  [x \in cols |->
                    CASE x = grain -> keys[k]
                      [] x = revenueCol -> rev
                      [] x = "order_count" -> cnt
                      [] OTHER -> AvgOrderValue(rev, cnt)]]]

DailyRevenue(t) == RevenueBy(t, "date", "daily_revenue")

MonthlyRevenue(t) == RevenueBy(t, "year_month", "monthly_revenue")

\* the agg of the revenue KPIs names order_id: a KeyError without that column
RevenueRaises(facts) ==
    /\ "fact_orders" \in DOMAIN facts
    /\ DropUndated(OrdersForRevenue(facts["fact_orders"])).rows # <<>>
    /\ "order_id" \notin facts["fact_orders"].cols

RevenueKpis(facts) ==
    IF "fact_orders" \notin DOMAIN facts THEN EmptyDict
    ELSE LET t == DropUndated(OrdersForRevenue(facts["fact_orders"]))
         IN  IF t.rows = <<>> THEN EmptyDict
             ELSE [n \in {"daily_revenue", "monthly_revenue"} |->
                     IF n = "daily_revenue" THEN DailyRevenue(t)
                     ELSE MonthlyRevenue(t)]

\* the keys of groupby(col): the values present, ascending, missing ones dropped
GroupKeys(t, col) ==
    SortedSeq({t.rows[i][col] : i \in 1..Len(t.rows)} \ {NaN})

Group(t, col, key) == SelectSeq(t.rows, LAMBDA r : r[col] = key)

VehiclePerformanceNeeds == {"vehicle_id", "distance_traveled", "fuel_consumed",
                            "delivery_time", "efficiency_score"}

\* groupby('vehicle_id') or the agg: a KeyError when a named column is missing
VehiclePerformanceRaises(facts) ==
    /\ "fact_performance" \in DOMAIN facts
    /\ ~ (VehiclePerformanceNeeds \subseteq facts["fact_performance"].cols)

VehiclePerformance(t) ==
    LET keys == GroupKeys(t, "vehicle_id")
        cols == VehiclePerformanceNeeds \cup {"fuel_efficiency"}
    IN  [cols |-> cols,
         rows |-> [k \in 1..Len(keys) |->
            LET grp == Group(t, "vehicle_id", keys[k])
            IN  [x \in cols |->
                    CASE x = "vehicle_id" -> keys[k]
                      [] x = "distance_traveled" -> ColSum(grp, x)
                      [] x = "fuel_consumed" -> ColSum(grp, x)
                      [] x = "delivery_time" -> ColMean(grp, x)
                      [] x = "efficiency_score" -> ColMean(grp, x)
                      [] OTHER -> Quot(ColSum(grp, "distance_traveled"),
                                       ColSum(grp, "fuel_consumed"))]]]

InventoryTurnoverNeeds == {"product_id", "quantity_sold", "quantity_on_hand"}

InventoryTurnoverRaises(facts) ==
    /\ "fact_inventory" \in DOMAIN facts
    /\ ~ (InventoryTurnoverNeeds \subseteq facts["fact_inventory"].cols)

InventoryTurnover(t) ==
    LET keys == GroupKeys(t, "product_id")
        cols == InventoryTurnoverNeeds \cup {"turnover_ratio"}
    IN  [cols |-> cols,
         rows |-> [k \in 1..Len(keys) |->
            LET grp == Group(t, "product_id", keys[k])
            IN  [x \in cols |->
                    CASE x = "product_id" -> keys[k]
                      [] x = "quantity_sold" -> ColSum(grp, x)
                      [] x = "quantity_on_hand" -> ColMean(grp, x)
                      [] OTHER -> Quot(ColSum(grp, "quantity_sold"),
                                       ColMean(grp, "quantity_on_hand"))]]]

----------------------------------------------------------------------------
(* _calculate_supply_chain_kpis *)

\* blob.name.replace('_silver.csv', '')
SourceTable(name) == Remove(name, SilverSuffix)

\* the source_table values in the order of the listing, each once
RECURSIVE Unique(_, _)
Unique(s, seen) ==
    IF s = <<>> THEN <<>>
    ELSE IF Head(s) \in seen THEN Unique(Tail(s), seen)
    ELSE <<Head(s)>> \o Unique(Tail(s), seen \cup {Head(s)})

SourceTables(frames) ==
    Unique([i \in 1..Len(frames) |-> SourceTable(frames[i].name)], {})

\* the rows of combined_data tagged with one source_table
SourceRows(frames, cols, src) ==
    Flatten([i \in 1..Len(frames) |->
                IF SourceTable(frames[i].name) = src
                THEN Widen(frames[i].table, cols) ELSE <<>>])

CombinedCols(frames) == UNION {frames[i].table.cols : i \in 1..Len(frames)}

\* a comparison with a missing value is False
OnTime(r) ==
    /\ r["delivery_date"] # NaN
    /\ r["estimated_delivery"] # NaN
    /\ r["delivery_date"] <= r["estimated_delivery"]

IsFulfilled(r) == r["order_status"] = Fulfilled

\* mean of a boolean column: the share of its True cells
OnTimeShare(rows) == Quot(Len(SelectSeq(rows, OnTime)), Len(rows))

FulfilledShare(rows) == Quot(Len(SelectSeq(rows, IsFulfilled)), Len(rows))

SupplyChainRow(frames, cols, src, kpi) ==
    LET rows == SourceRows(frames, cols, src)
    IN  CASE kpi = "on_time_delivery" ->
                [table_name |-> src, on_time_delivery_rate |-> OnTimeShare(rows)]
          [] kpi = "fulfillment_rate" ->
                [table_name |-> src, fulfillment_rate |-> FulfilledShare(rows)]
          [] kpi = "cost_efficiency" ->
                [source_table |-> src,
                 cost |-> ColSum(rows, "cost"),
                 revenue |-> ColSum(rows, "revenue"),
                 cost_efficiency_ratio |->
                     Quot(ColSum(rows, "revenue"), ColSum(rows, "cost"))]

SupplyChainNeeds(kpi) ==
    CASE kpi = "on_time_delivery" -> {"delivery_date", "estimated_delivery"}
      [] kpi = "fulfillment_rate" -> {"order_status"}
      [] kpi = "cost_efficiency" -> {"cost", "revenue"}

SupplyChainCols(kpi) ==
    CASE kpi = "on_time_delivery" -> {"table_name", "on_time_delivery_rate"}
      [] kpi = "fulfillment_rate" -> {"table_name", "fulfillment_rate"}
      [] kpi = "cost_efficiency" ->
            {"source_table", "cost", "revenue", "cost_efficiency_ratio"}

SupplyChainNames == {"on_time_delivery", "fulfillment_rate", "cost_efficiency"}

CalculateSupplyChainKpis(blobs) ==
    LET frames == Frames(blobs)
        cols   == CombinedCols(frames)
        srcs   == SourceTables(frames)
        made   == IF frames = <<>> THEN {}
                  ELSE {k \in SupplyChainNames : SupplyChainNeeds(k) \subseteq cols}
    IN  [k \in made |->
            [cols |-> SupplyChainCols(k),
             rows |-> [i \in 1..Len(srcs) |->
                         SupplyChainRow(frames, cols, srcs[i], k)]]]

\* whether the try block of _calculate_kpis is left by an exception
KpisRaise(facts) ==
    \/ RevenueRaises(facts)
    \/ VehiclePerformanceRaises(facts)
    \/ InventoryTurnoverRaises(facts)

\* the dictionary built when nothing raises
KpisBuilt(facts, blobs) ==
    LET perf == IF "fact_performance" \in DOMAIN facts
                THEN Put(EmptyDict, "vehicle_performance",
                         VehiclePerformance(facts["fact_performance"]))
                ELSE EmptyDict
        inv  == IF "fact_inventory" \in DOMAIN facts
                THEN Put(EmptyDict, "inventory_turnover",
                         InventoryTurnover(facts["fact_inventory"]))
                ELSE EmptyDict
    IN  Update(Update(Update(RevenueKpis(facts), perf), inv),
               CalculateSupplyChainKpis(blobs))

\* the dictionary _calculate_kpis returns
CalculateKpis(facts, blobs) ==
    IF KpisRaise(facts) THEN EmptyDict ELSE KpisBuilt(facts, blobs)

KpiOrder == <<"daily_revenue", "monthly_revenue", "vehicle_performance",
              "inventory_turnover", "on_time_delivery", "fulfillment_rate",
              "cost_efficiency">>

----------------------------------------------------------------------------
(* _create_analytics_views *)

RevenueViewTimeCols == {"date", "year", "quarter", "month", "month_name", "day_name"}
PerformanceViewVehicleCols == {"vehicle_id", "vehicle_type", "make", "model"}
InventoryViewProductCols == {"product_id", "product_name", "product_category"}

\* revenue_view['date'] = pd.to_datetime(revenue_view['date']): midnight of the day
DatesToTimestamps(t) ==
    [cols |-> t.cols,
     rows |-> [i \in 1..Len(t.rows) |->
                 [x \in t.cols |-> IF x = "date" THEN t.rows[i][x] * TicksPerDay
                                   ELSE t.rows[i][x]]]]

RevenueViewWanted(kpis, dims) ==
    "daily_revenue" \in DOMAIN kpis /\ "dim_time" \in DOMAIN dims

PerformanceViewWanted(kpis, dims) ==
    "vehicle_performance" \in DOMAIN kpis /\ "dim_vehicle" \in DOMAIN dims

InventoryViewWanted(kpis, dims) ==
    "inventory_turnover" \in DOMAIN kpis /\ "dim_product" \in DOMAIN dims

\* dim[[columns]] with a column the dimension lacks: a KeyError
PerformanceViewRaises(kpis, dims) ==
    /\ PerformanceViewWanted(kpis, dims)
    /\ ~ (PerformanceViewVehicleCols \subseteq dims["dim_vehicle"].cols)

InventoryViewRaises(kpis, dims) ==
    /\ InventoryViewWanted(kpis, dims)
    /\ ~ (InventoryViewProductCols \subseteq dims["dim_product"].cols)

ViewsRaise(kpis, dims) ==
    PerformanceViewRaises(kpis, dims) \/ InventoryViewRaises(kpis, dims)

RevenueView(kpis, dims) ==
    MergeLeft(DatesToTimestamps(kpis["daily_revenue"]),
              Rows(dims["dim_time"]), RevenueViewTimeCols, "date")

PerformanceView(kpis, dims) ==
    MergeLeft(kpis["vehicle_performance"],
              Rows(dims["dim_vehicle"]), PerformanceViewVehicleCols, "vehicle_id")

InventoryView(kpis, dims) ==
    MergeLeft(kpis["inventory_turnover"],
              Rows(dims["dim_product"]), InventoryViewProductCols, "product_id")

ViewsBuilt(kpis, dims) ==
    LET made == {n \in {"revenue_analytics", "performance_analytics",
                        "inventory_analytics"} :
                    CASE n = "revenue_analytics" -> RevenueViewWanted(kpis, dims)
                      [] n = "performance_analytics" -> PerformanceViewWanted(kpis, dims)
                      [] n = "inventory_analytics" -> InventoryViewWanted(kpis, dims)}
    IN  [n \in made |->
            CASE n = "revenue_analytics" -> RevenueView(kpis, dims)
              [] n = "performance_analytics" -> PerformanceView(kpis, dims)
              [] n = "inventory_analytics" -> InventoryView(kpis, dims)]

\* the dictionary _create_analytics_views returns
CreateAnalyticsViews(kpis, dims) ==
    IF ViewsRaise(kpis, dims) THEN EmptyDict ELSE ViewsBuilt(kpis, dims)

ViewOrder == <<"revenue_analytics", "performance_analytics", "inventory_analytics">>

----------------------------------------------------------------------------
(* The inputs: silver containers and clock readings *)

\* clock readings: the days BaseDay .. BaseDay + days, at every tick of the day
AsOfs(days) ==
    {(BaseDay + k) * TicksPerDay + t : k \in 0..days, t \in 0..(TicksPerDay - 1)}

\* order and trip dates: two ticks of one day, and a day of the month before
DayA == (BaseDay - 1) * TicksPerDay
DayALate == (BaseDay - 1) * TicksPerDay + 1
DayB == (BaseDay - 40) * TicksPerDay
DayC == (BaseDay - 2) * TicksPerDay + 1

\* the tables of a schema: the runs of at most MaxRows consecutive rows of its pool
Windows(pool) ==
    {[cols |-> DOMAIN pool[1], rows |-> SubSeq(pool, i, j)] :
        <<i, j>> \in {w \in (1..Len(pool)) \X (1..Len(pool)) :
                         w[1] <= w[2] /\ w[2] - w[1] < MaxRows}}

OrdersPlainPool ==
    << [customer_id |-> 1, product_id |-> 1, order_date |-> DayA,
        quantity |-> 2, unit_price |-> 3],
       [customer_id |-> 2, product_id |-> 1, order_date |-> DayALate,
        quantity |-> 1, unit_price |-> 3],
       [customer_id |-> 1, product_id |-> 2, order_date |-> DayB,
        quantity |-> 2, unit_price |-> 5],
       [customer_id |-> 2, product_id |-> 2, order_date |-> NaN,
        quantity |-> 1, unit_price |-> 4] >>

OrdersTotalPool ==
    << [order_id |-> 1, order_date |-> DayA, quantity |-> 2, unit_price |-> 3,
        total_amount |-> 6],
       [order_id |-> 2, order_date |-> DayALate, quantity |-> 2, unit_price |-> 3,
        total_amount |-> 5],
       [order_id |-> NaN, order_date |-> DayB, quantity |-> 1, unit_price |-> 4,
        total_amount |-> 4],
       [order_id |-> 3, order_date |-> NaN, quantity |-> NaN, unit_price |-> 2,
        total_amount |-> 2] >>

OrdersSumPool ==
    << [order_id |-> 4, order_date |-> DayA, total_amount |-> 7],
       [order_id |-> 5, order_date |-> DayB, total_amount |-> 9] >>

PerformancePool ==
    << [vehicle_id |-> 1, date |-> DayA, distance_traveled |-> 100,
        fuel_consumed |-> 10, delivery_time |-> 30, efficiency_score |-> 80],
       [vehicle_id |-> 1, date |-> DayB, distance_traveled |-> 50,
        fuel_consumed |-> 0, delivery_time |-> NaN, efficiency_score |-> 90],
       [vehicle_id |-> 2, date |-> DayA, distance_traveled |-> 70,
        fuel_consumed |-> 7, delivery_time |-> 20, efficiency_score |-> 60] >>

PerformanceNoVehiclePool ==
    << [date |-> DayA, distance_traveled |-> 100, fuel_consumed |-> 10,
        delivery_time |-> 30, efficiency_score |-> 80] >>

VehiclesPool ==
    << [vehicle_id |-> 1, vehicle_type |-> 1, make |-> 1, model |-> 1, capacity |-> 10],
       [vehicle_id |-> 1, vehicle_type |-> 1, make |-> 1, model |-> 1, capacity |-> 10],
       [vehicle_id |-> 1, vehicle_type |-> 1, make |-> 1, model |-> 1, capacity |-> 20],
       [vehicle_id |-> 2, vehicle_type |-> 2, make |-> 1, model |-> 2, capacity |-> 10] >>

VehiclesNoMakePool ==
    << [vehicle_id |-> 1, vehicle_type |-> 1, capacity |-> 10],
       [vehicle_id |-> 2, vehicle_type |-> 1, capacity |-> 10] >>

\* orders with a status, delivery dates, cost and revenue
OrdersStatusPool ==
    << [order_id |-> 6, order_date |-> DayA, total_amount |-> 8,
        order_status |-> Fulfilled, delivery_date |-> DayA,
        estimated_delivery |-> DayALate, cost |-> 5, revenue |-> 8],
       [order_id |-> 7, order_date |-> DayB, total_amount |-> 3,
        order_status |-> 0, delivery_date |-> DayALate,
        estimated_delivery |-> DayA, cost |-> 0, revenue |-> 3],
       [order_id |-> 8, order_date |-> DayA, total_amount |-> 4,
        order_status |-> Fulfilled, delivery_date |-> NaN,
        estimated_delivery |-> DayA, cost |-> 2, revenue |-> 4] >>

\* orders that name their customer and product
\* orders of two days of one month, one without an order id
OrdersMonthPool ==
    << [order_id |-> 9, order_date |-> DayA, total_amount |-> 5],
       [order_id |-> NaN, order_date |-> DayC, total_amount |-> 3],
       [order_id |-> 10, order_date |-> DayC, total_amount |-> NaN] >>

OrdersPartyPool ==
    << [order_id |-> 1, order_date |-> DayA, total_amount |-> 6,
        customer |-> 1, customer_id |-> 1, customer_name |-> 1,
        product |-> 1, product_id |-> 1, product_name |-> 1, product_category |-> 1],
       [order_id |-> 2, order_date |-> DayA, total_amount |-> 6,
        customer |-> 1, customer_id |-> 1, customer_name |-> 1,
        product |-> 1, product_id |-> 1, product_name |-> 1, product_category |-> 2],
       [order_id |-> 3, order_date |-> DayB, total_amount |-> 2,
        customer |-> 2, customer_id |-> 2, customer_name |-> 1,
        product |-> 2, product_id |-> 2, product_name |-> 2, product_category |-> 1] >>

\* orders that carry the ids only, not the customer and product columns
OrdersIdsPool ==
    << [order_id |-> 1, order_date |-> DayA, total_amount |-> 6,
        customer_id |-> 1, product_id |-> 1] >>

InventoryPool ==
    << [product_id |-> 1, warehouse_id |-> 1, date |-> DayA,
        quantity_on_hand |-> 10, quantity_ordered |-> 1, quantity_sold |-> 4],
       [product_id |-> 1, warehouse_id |-> 2, date |-> DayA,
        quantity_on_hand |-> 0, quantity_ordered |-> 1, quantity_sold |-> 2],
       [product_id |-> 3, warehouse_id |-> 1, date |-> DayB,
        quantity_on_hand |-> NaN, quantity_ordered |-> 0, quantity_sold |-> 1] >>

InventoryNoSoldPool ==
    << [product_id |-> 1, warehouse_id |-> 1, date |-> DayA,
        quantity_on_hand |-> 10] >>

FuelPool ==
    << [vehicle_id |-> 1, date |-> DayA, fuel_type |-> 1, fuel_consumed |-> 10,
        cost |-> 30],
       [vehicle_id |-> 1, date |-> DayA, fuel_type |-> 1, fuel_consumed |-> 10,
        cost |-> 30] >>

SuppliersPool ==
    << [supplier_id |-> 1, supplier_name |-> 1, rating |-> 5, city |-> 1],
       [supplier_id |-> 1, supplier_name |-> 1, rating |-> 5, city |-> 1],
       [supplier_id |-> 2, supplier_name |-> 2, rating |-> 4, city |-> 2] >>

WarehousesPool ==
    << [warehouse_id |-> 1, city |-> 1, country |-> 1, capacity |-> 100],
       [warehouse_id |-> 2, city |-> 1, country |-> 1, capacity |-> 100],
       [warehouse_id |-> 2, city |-> 2, country |-> 1, capacity |-> 50] >>

NameOrdersA == <<"o", "r", "d", "e", "r", "s", "_", "a", "_", "s", "i", "l", "v", "e", "r", ".", "c", "s", "v">>
NameOrdersB == <<"o", "r", "d", "e", "r", "s", "_", "b", "_", "s", "i", "l", "v", "e", "r", ".", "c", "s", "v">>
NamePerformance == <<"p", "e", "r", "f", "o", "r", "m", "a", "n", "c", "e", "_", "s", "i", "l", "v", "e", "r", ".", "c", "s", "v">>
NameVehiclesA == <<"v", "e", "h", "i", "c", "l", "e", "s", "_", "a", "_", "s", "i", "l", "v", "e", "r", ".", "c", "s", "v">>
NameVehiclesB == <<"v", "e", "h", "i", "c", "l", "e", "s", "_", "b", "_", "s", "i", "l", "v", "e", "r", ".", "c", "s", "v">>
NameInventory == <<"i", "n", "v", "e", "n", "t", "o", "r", "y", "_", "s", "i", "l", "v", "e", "r", ".", "c", "s", "v">>
NameFuel == <<"f", "u", "e", "l", "_", "s", "i", "l", "v", "e", "r", ".", "c", "s", "v">>
NameSuppliers == <<"s", "u", "p", "p", "l", "i", "e", "r", "s", "_", "s", "i", "l", "v", "e", "r", ".", "c", "s", "v">>
NameWarehouses == <<"w", "a", "r", "e", "h", "o", "u", "s", "e", "s", "_", "s", "i", "l", "v", "e", "r", ".", "c", "s", "v">>

\* names that hold two vocabulary tokens, and a name with a capital letter
NameOrdersInventory == <<"o", "r", "d", "e", "r", "s", "_", "i", "n", "v", "e", "n", "t", "o", "r", "y", "_", "s", "i", "l", "v", "e", "r", ".", "c", "s", "v">>
NameVehiclesSuppliers == <<"v", "e", "h", "i", "c", "l", "e", "s", "_", "s", "u", "p", "p", "l", "i", "e", "r", "s", "_", "s", "i", "l", "v", "e", "r", ".", "c", "s", "v">>
NameOrdersCapital == <<"O", "r", "d", "e", "r", "s", "_", "a", "_", "s", "i", "l", "v", "e", "r", ".", "c", "s", "v">>

Blob(name, table) == [name |-> name, readable |-> TRUE, table |-> table]

\* a blob whose download or parse fails
Corrupt(name) ==
    [name |-> name, readable |-> FALSE, table |-> [cols |-> {}, rows |-> <<>>]]

\* what a listing may hold under a name: nothing, or a blob with one of the tables
Choices(name, tables) == {<<>>} \cup {<<Blob(name, t)>> : t \in tables}

\* the table of the first MaxRows rows of a pool
Prefixes(pool) ==
    {[cols |-> DOMAIN pool[1],
      rows |-> SubSeq(pool, 1, IF Len(pool) < MaxRows THEN Len(pool) ELSE MaxRows)]}

OrdersTables ==
    Windows(OrdersPlainPool) \cup Windows(OrdersTotalPool) \cup Windows(OrdersSumPool)

PerformanceTables ==
    Windows(PerformancePool) \cup Windows(PerformanceNoVehiclePool)

VehiclesTables == Windows(VehiclesPool) \cup Windows(VehiclesNoMakePool)

InventoryTables == Windows(InventoryPool) \cup Windows(InventoryNoSoldPool)

\* Listings are in the lexicographic order of the names.
\* one or two orders files
OrdersContainers ==
    {a \o b : a \in Choices(NameOrdersA, OrdersTables \cup Prefixes(OrdersStatusPool)
                                             \cup Prefixes(OrdersMonthPool)),
              b \in Choices(NameOrdersB, Windows(OrdersSumPool)
                                             \cup Prefixes(OrdersPlainPool))
                       \cup {<<Corrupt(NameOrdersB)>>}}

\* a performance file, a vehicles file or both, alone or beside an orders file
FleetContainers ==
    {a \o p \o v :
        a \in Choices(NameOrdersA, {[cols |-> DOMAIN OrdersTotalPool[1],
                                     rows |-> SubSeq(OrdersTotalPool, 1, 2)]}),
        p \in Choices(NamePerformance, PerformanceTables),
        v \in Choices(NameVehiclesA, VehiclesTables)}

\* an inventory file, readable or not, an orders file that names products, or
\* both
StockContainers ==
    {i \o a :
        i \in Choices(NameInventory, InventoryTables)
                 \cup {<<Corrupt(NameInventory)>>},
        a \in Choices(NameOrdersA, Windows(OrdersPartyPool) \cup Windows(OrdersIdsPool))}

\* one file whose name holds two tokens: inventory rows under an orders and
\* inventory name, supplier rows under a vehicles and suppliers name
TwoTokenContainers ==
    {<<Blob(NameOrdersInventory, t)>> : t \in Prefixes(InventoryPool)}
    \cup {<<Blob(NameVehiclesSuppliers, t)>> : t \in Prefixes(SuppliersPool)}

\* an orders file whose name starts with a capital letter
CapitalContainers ==
    {<<Blob(NameOrdersCapital, t)>> : t \in Prefixes(OrdersPartyPool)}

FullRunContainers ==
    (OrdersContainers \cup FleetContainers \cup StockContainers
        \cup TwoTokenContainers \cup CapitalContainers) \ {<<>>}

\* the same families, each table the first MaxRows rows of its pool
RerunContainers ==
    ( {a \o b : a \in Choices(NameOrdersA, Prefixes(OrdersTotalPool)
                                             \cup Prefixes(OrdersPlainPool)),
                b \in Choices(NameOrdersB, Prefixes(OrdersSumPool))}
      \cup
      {a \o p \o v :
          a \in Choices(NameOrdersA, Prefixes(OrdersStatusPool)),
          p \in Choices(NamePerformance, Prefixes(PerformancePool)
                                            \cup Prefixes(PerformanceNoVehiclePool)),
          v \in Choices(NameVehiclesA, Prefixes(VehiclesPool)
                                          \cup Prefixes(VehiclesNoMakePool))}
      \cup
      {i \o a :
          i \in Choices(NameInventory, Prefixes(InventoryPool)),
          a \in Choices(NameOrdersA, Prefixes(OrdersPartyPool))} ) \ {<<>>}

\* the files dimensions are built from: two vehicles files; or two orders
\* files; or a suppliers file and a warehouses file
DimensionContainers ==
    ( {a \o b : a \in Choices(NameVehiclesA, VehiclesTables),
                b \in Choices(NameVehiclesB, VehiclesTables)}
      \cup
      {a \o b : a \in Choices(NameOrdersA, Windows(OrdersPartyPool)
                                             \cup Windows(OrdersIdsPool)),
                b \in Choices(NameOrdersB, Windows(OrdersPartyPool))}
      \cup
      {a \o b : a \in Choices(NameSuppliers, Windows(SuppliersPool)),
                b \in Choices(NameWarehouses, Windows(WarehousesPool))} ) \ {<<>>}

\* the files facts are built from: two orders files; or fuel, inventory and
\* performance files
FactContainers ==
    ( {a \o b : a \in Choices(NameOrdersA, OrdersTables),
                b \in Choices(NameOrdersB, OrdersTables)}
      \cup
      {f \o i \o p :
          f \in Choices(NameFuel, Windows(FuelPool)),
          i \in Choices(NameInventory, InventoryTables),
          p \in Choices(NamePerformance, PerformanceTables)} ) \ {<<>>}

----------------------------------------------------------------------------
(* _upload_dataframe_to_blob and the upload loops *)

\* the keys of a dictionary in insertion order
Keys(d, order) == SelectSeq(order, LAMBDA n : n \in DOMAIN d)

\* the gold blob a table of a stage is written to
BlobPath(prefix, name) == <<prefix, name>>

\* blob_client.upload_blob(csv_data, overwrite=True)
Uploaded(container, prefix, name, table) ==
    Put(container, BlobPath(prefix, name), table)

ZeroStats ==
    [total_silver_files |-> 0, dimensions_created |-> 0, facts_created |-> 0,
     kpis_calculated |-> 0, views_created |-> 0, failed_operations |-> 0]

NoTables == [dimensions |-> EmptyDict, facts |-> EmptyDict,
             kpis |-> EmptyDict, views |-> EmptyDict]

\* an upload loop that a failed upload ends
UploadStepAborting(at, prefix) ==
    /\ pc = at
    /\ todo # <<>>
    /\ \/ /\ gold' = Uploaded(gold, prefix, Head(todo), out[Head(todo)])
          /\ stats' = stats
          /\ todo' = Tail(todo)
       \/ /\ stats.failed_operations < MaxUploadFailures
          /\ stats' = [stats EXCEPT !.failed_operations = @ + 1]
          /\ gold' = gold
          /\ todo' = <<>>
    /\ UNCHANGED <<stages, processed_files, silver, now, mode, pc, self_dimensions,
                   self_facts, self_kpis, out, run, built>>

\* one pass of an upload loop of process_silver_to_gold: the upload succeeds,
\* or it fails and is counted
UploadStep(at, prefix) ==
    /\ pc = at
    /\ todo # <<>>
    /\ todo' = Tail(todo)
    /\ \/ /\ gold' = Uploaded(gold, prefix, Head(todo), out[Head(todo)])
          /\ stats' = stats
       \/ /\ stats.failed_operations < MaxUploadFailures
          /\ stats' = [stats EXCEPT !.failed_operations = @ + 1]
          /\ gold' = gold
    /\ UNCHANGED <<stages, processed_files, silver, now, mode, pc, self_dimensions, self_facts,
                   self_kpis, out, run, built>>

----------------------------------------------------------------------------
(* process_silver_to_gold *)

Begin ==
    /\ pc = "idle"
    /\ mode = "full"
    /\ stats' = [ZeroStats EXCEPT !.total_silver_files = Len(silver)]
    /\ built' = Append(built, NoTables)
    /\ pc' = "dimensions"
    /\ UNCHANGED <<stages, processed_files, silver, now, mode, self_dimensions, self_facts, self_kpis,
                   out, todo, gold, run>>

CreateDimensions ==
    /\ pc = "dimensions"
    /\ LET d == CreateDimensionTables(silver, now)
       IN  /\ self_dimensions' = d
           /\ out' = d
           /\ todo' = Keys(d, DimOrder)
           /\ stats' = [stats EXCEPT !.dimensions_created = Cardinality(DOMAIN d)]
           /\ built' = [built EXCEPT ![Len(built)].dimensions = d]
    /\ pc' = "upload_dimensions"
    /\ UNCHANGED <<stages, processed_files, silver, now, mode, self_facts, self_kpis, gold, run>>

UploadDimension == UploadStep("upload_dimensions", "dimensions")

\* the fact stage appending to the tables self.facts already holds
CreateFactsAppending ==
    /\ pc = "upload_dimensions"
    /\ todo = <<>>
    /\ LET made == CreateFactTables(silver)
           f == [n \in DOMAIN made |->
                    IF n \in DOMAIN self_facts
                    THEN Concat(<<self_facts[n], made[n]>>) ELSE made[n]]
       IN  /\ self_facts' = f
           /\ out' = f
           /\ todo' = Keys(f, FactOrder)
           /\ stats' = [stats EXCEPT !.facts_created = Cardinality(DOMAIN f)]
           /\ built' = [built EXCEPT ![Len(built)].facts = f]
    /\ pc' = "upload_facts"
    /\ UNCHANGED <<stages, processed_files, silver, now, mode, self_dimensions, self_kpis, gold, run>>

CreateFacts ==
    /\ pc = "upload_dimensions"
    /\ todo = <<>>
    /\ LET f == CreateFactTables(silver)
       IN  /\ self_facts' = f
           /\ out' = f
           /\ todo' = Keys(f, FactOrder)
           /\ stats' = [stats EXCEPT !.facts_created = Cardinality(DOMAIN f)]
           /\ built' = [built EXCEPT ![Len(built)].facts = f]
    /\ pc' = "upload_facts"
    /\ UNCHANGED <<stages, processed_files, silver, now, mode, self_dimensions, self_kpis, gold, run>>

UploadFact == UploadStep("upload_facts", "facts")

\* the KPI stage started without waiting for the fact uploads
CalculateKpisEarly ==
    /\ pc = "upload_facts"
    /\ LET k == CalculateKpis(self_facts, silver)
       IN  /\ self_kpis' = IF KpisRaise(self_facts) THEN self_kpis ELSE k
           /\ out' = k
           /\ todo' = Keys(k, KpiOrder)
           /\ stats' = [stats EXCEPT !.kpis_calculated = Cardinality(DOMAIN k)]
           /\ built' = [built EXCEPT ![Len(built)].kpis = k]
    /\ pc' = "upload_kpis"
    /\ UNCHANGED <<stages, processed_files, silver, now, mode, self_dimensions,
                   self_facts, gold, run>>

\* self.kpis is assigned only when the try block ran to its end
CalculateKpisStage ==
    /\ pc = "upload_facts"
    /\ todo = <<>>
    /\ LET k == CalculateKpis(self_facts, silver)
       IN  /\ self_kpis' = IF KpisRaise(self_facts) THEN self_kpis ELSE k
           /\ out' = k
           /\ todo' = Keys(k, KpiOrder)
           /\ stats' = [stats EXCEPT !.kpis_calculated = Cardinality(DOMAIN k)]
           /\ built' = [built EXCEPT ![Len(built)].kpis = k]
    /\ pc' = "upload_kpis"
    /\ UNCHANGED <<stages, processed_files, silver, now, mode, self_dimensions, self_facts, gold, run>>

UploadKpi == UploadStep("upload_kpis", "kpis")

CreateViews ==
    /\ pc = "upload_kpis"
    /\ todo = <<>>
    /\ LET v == CreateAnalyticsViews(self_kpis, self_dimensions)
       IN  /\ out' = v
           /\ todo' = Keys(v, ViewOrder)
           /\ stats' = [stats EXCEPT !.views_created = Cardinality(DOMAIN v)]
           /\ built' = [built EXCEPT ![Len(built)].views = v]
    /\ pc' = "upload_views"
    /\ UNCHANGED <<stages, processed_files, silver, now, mode, self_dimensions, self_facts, self_kpis,
                   gold, run>>

UploadView == UploadStep("upload_views", "analytics")

\* the statistics are returned
Finish ==
    /\ pc = "upload_views"
    /\ todo = <<>>
    /\ pc' = "done"
    /\ run' = run + 1
    /\ UNCHANGED <<stages, processed_files, silver, now, mode, self_dimensions, self_facts, self_kpis,
                   out, todo, stats, gold, built>>

Next ==
    \/ Begin
    \/ CreateDimensions
    \/ UploadDimension
    \/ CreateFacts
    \/ UploadFact
    \/ CalculateKpisStage
    \/ UploadKpi
    \/ CreateViews
    \/ UploadView
    \/ Finish

----------------------------------------------------------------------------
(* The processor called again: a second process_silver_to_gold on the same
   GoldLayerProcessor, at a later clock reading *)

Again ==
    /\ pc = "done"
    /\ run < MaxRuns
    /\ pc' = "idle"
    /\ now' \in (now + 1)..(now + TicksPerDay)
    /\ UNCHANGED <<stages, processed_files, silver, mode, self_dimensions, self_facts, self_kpis, out,
                   todo, stats, gold, run, built>>

----------------------------------------------------------------------------
(* gold_layer_launcher.main with --dimensions-only or --facts-only *)

\* one pass of an upload loop of the launcher: a failed upload is not counted
UploadOnlyStep(prefix) ==
    /\ pc = "upload_only"
    /\ todo # <<>>
    /\ todo' = Tail(todo)
    /\ \/ gold' = Uploaded(gold, prefix, Head(todo), out[Head(todo)])
       \/ gold' = gold
    /\ UNCHANGED <<stages, processed_files, silver, now, mode, pc, self_dimensions, self_facts,
                   self_kpis, out, stats, run, built>>

DimensionsOnly ==
    /\ pc = "idle"
    /\ mode = "dimensions_only"
    /\ LET d == CreateDimensionTables(silver, now)
       IN  /\ self_dimensions' = d
           /\ out' = d
           /\ todo' = Keys(d, DimOrder)
    /\ pc' = "upload_only"
    /\ UNCHANGED <<stages, processed_files, silver, now, mode, self_facts, self_kpis, stats, gold, run,
                   built>>

UploadDimensionOnly == mode = "dimensions_only" /\ UploadOnlyStep("dimensions")

FactsOnly ==
    /\ pc = "idle"
    /\ mode = "facts_only"
    /\ LET f == CreateFactTables(silver)
       IN  /\ self_facts' = f
           /\ out' = f
           /\ todo' = Keys(f, FactOrder)
    /\ pc' = "upload_only"
    /\ UNCHANGED <<stages, processed_files, silver, now, mode, self_dimensions, self_kpis, stats, gold,
                   run, built>>

UploadFactOnly == mode = "facts_only" /\ UploadOnlyStep("facts")

Exit ==
    /\ pc = "upload_only"
    /\ todo = <<>>
    /\ pc' = "done"
    /\ UNCHANGED <<stages, processed_files, silver, now, mode, self_dimensions, self_facts, self_kpis,
                   out, todo, stats, gold, run, built>>

NextRerun == Next \/ Again

NextDimensionsOnly == DimensionsOnly \/ UploadDimensionOnly \/ Exit

NextFactsOnly == FactsOnly \/ UploadFactOnly \/ Exit

----------------------------------------------------------------------------
(* process_silver_to_gold when a listing of the silver container raises *)

\* the except of process_silver_to_gold losing the statistics record
ListBlobsFailsUnhandled ==
    /\ pc = "idle"
    /\ mode = "full"
    /\ stats' = EmptyDict
    /\ built' = Append(built, NoTables)
    /\ pc' = "done"
    /\ run' = run + 1
    /\ UNCHANGED <<stages, processed_files, silver, now, mode, self_dimensions,
                   self_facts, self_kpis, out, todo, gold>>

\* list_blobs raises in process_silver_to_gold itself: its except returns the
\* statistics as initialised
ListBlobsFails ==
    /\ pc = "idle"
    /\ mode = "full"
    /\ stats' = ZeroStats
    /\ built' = Append(built, NoTables)
    /\ pc' = "done"
    /\ run' = run + 1
    /\ UNCHANGED <<stages, processed_files, silver, now, mode, self_dimensions,
                   self_facts, self_kpis, out, todo, gold>>

\* a listing failure of the dimension stage that the run counts as a failed
\* operation
CreateDimensionsFailsCounted ==
    /\ pc = "dimensions"
    /\ out' = EmptyDict
    /\ todo' = <<>>
    /\ stats' = [stats EXCEPT !.dimensions_created = 0,
                              !.failed_operations = @ + 1]
    /\ pc' = "upload_dimensions"
    /\ UNCHANGED <<stages, processed_files, silver, now, mode, self_dimensions,
                   self_facts, self_kpis, gold, run, built>>

\* list_blobs raises in _create_dimension_tables: {} is returned and
\* self.dimensions is not assigned
CreateDimensionsFails ==
    /\ pc = "dimensions"
    /\ out' = EmptyDict
    /\ todo' = <<>>
    /\ stats' = [stats EXCEPT !.dimensions_created = 0]
    /\ pc' = "upload_dimensions"
    /\ UNCHANGED <<stages, processed_files, silver, now, mode, self_dimensions,
                   self_facts, self_kpis, gold, run, built>>

\* list_blobs raises in _create_fact_tables: {} is returned and self.facts is
\* not assigned
CreateFactsFails ==
    /\ pc = "upload_dimensions"
    /\ todo = <<>>
    /\ out' = EmptyDict
    /\ todo' = <<>>
    /\ stats' = [stats EXCEPT !.facts_created = 0]
    /\ pc' = "upload_facts"
    /\ UNCHANGED <<stages, processed_files, silver, now, mode, self_dimensions,
                   self_facts, self_kpis, gold, run, built>>

\* (list_blobs raising in _calculate_supply_chain_kpis makes it return {}, what
\* it returns anyway for the containers of these runs, whose files have no
\* delivery, status or cost columns: CalculateKpisStage covers it.)
NextFaults ==
    \/ NextRerun
    \/ ListBlobsFails
    \/ CreateDimensionsFails
    \/ CreateFactsFails

----------------------------------------------------------------------------
(* Specifications *)

InitProcessor ==
    /\ pc = "idle"
    /\ self_dimensions = EmptyDict
    /\ self_facts = EmptyDict
    /\ self_kpis = EmptyDict
    /\ out = EmptyDict
    /\ todo = <<>>
    /\ stats = ZeroStats
    /\ gold = EmptyDict
    /\ run = 0
    /\ built = <<>>
    /\ StagesIdle

\* _load_metadata: what gold_layer_metadata.json held at construction, nothing
\* (no file, or an unreadable one) or a digest for every blob of the container
MetadataFiles(blobs) ==
    {EmptyDict, [n \in {blobs[i].name : i \in 1..Len(blobs)} |-> 1]}

\* one full run
Init ==
    /\ silver \in FullRunContainers
    /\ processed_files = EmptyDict
    /\ now \in AsOfs(0)
    /\ mode = "full"
    /\ InitProcessor

Spec == Init /\ [][Next]_vars

\* full runs repeated on one processor over an unchanged silver container
InitRerun ==
    /\ silver \in RerunContainers
    /\ processed_files \in MetadataFiles(silver)
    /\ now \in AsOfs(0)
    /\ mode = "full"
    /\ InitProcessor

SpecRerun == InitRerun /\ [][NextRerun]_vars

\* the launcher with --dimensions-only, at any clock reading
InitDimensions ==
    /\ silver \in DimensionContainers
    /\ processed_files = EmptyDict
    /\ now \in AsOfs(MaxAsOfDays)
    /\ mode = "dimensions_only"
    /\ InitProcessor

SpecDimensions == InitDimensions /\ [][NextDimensionsOnly]_vars

\* the launcher with --facts-only
InitFacts ==
    /\ silver \in FactContainers
    /\ processed_files = EmptyDict
    /\ now \in AsOfs(0)
    /\ mode = "facts_only"
    /\ InitProcessor

SpecFacts == InitFacts /\ [][NextFactsOnly]_vars

\* a performance file and a vehicles file, alone or after an orders file that
\* cannot be read
FaultContainers ==
    {a \o <<Blob(NamePerformance, p), Blob(NameVehiclesA, v)>> :
        a \in {<<>>, <<Corrupt(NameOrdersA)>>},
        p \in Prefixes(PerformancePool),
        v \in Prefixes(VehiclesPool)}

\* repeated full runs in which any listing of the silver container may raise
InitFaults ==
    /\ silver \in FaultContainers
    /\ processed_files = EmptyDict
    /\ now \in AsOfs(0)
    /\ mode = "full"
    /\ InitProcessor

SpecFaults == InitFaults /\ [][NextFaults]_vars

----------------------------------------------------------------------------
(* Claims *)

\* the number of rows the frames before the i-th put in front of its rows
RECURSIVE RowsBefore(_, _)
RowsBefore(data, i) ==
    IF i <= 1 THEN 0 ELSE RowsBefore(data, i - 1) + Len(data[i - 1].rows)

\* the projected frames the orders fact of this container is built from
OrdersSources == FactData(Frames(silver), "orders")

\* C1: building the orders fact never overwrites a total_amount a source
\* supplied: every row that came from a source carrying the total_amount column
\* has that source's value in fact_orders.
C1_SourceTotalKept ==
    (pc = "upload_facts" /\ "fact_orders" \in DOMAIN self_facts) =>
        \A i \in 1..Len(OrdersSources) :
            "total_amount" \in OrdersSources[i].cols =>
                \A j \in 1..Len(OrdersSources[i].rows) :
                    self_facts["fact_orders"].rows[RowsBefore(OrdersSources, i) + j]
                        ["total_amount"]
                    = OrdersSources[i].rows[j]["total_amount"]

----------------------------------------------------------------------------

\* every readable silver file is an orders file with exactly the columns
\* customer_id, product_id, order_date, quantity, unit_price
PlainOrdersOnly ==
    /\ Frames(silver) # <<>>
    /\ Len(Frames(silver)) = Len(silver)
    /\ \A i \in 1..Len(silver) :
          /\ FactBranch(silver[i].name) = "orders"
          /\ silver[i].table.cols = {"customer_id", "product_id", "order_date",
                                     "quantity", "unit_price"}

\* the rows of all silver files, in listing order
SilverRows == Flatten([i \in 1..Len(silver) |-> silver[i].table.rows])

DatedRows(rows) == SelectSeq(rows, LAMBDA r : r["order_date"] # NaN)

\* C2: over orders files with the columns customer_id, product_id, order_date,
\* quantity, unit_price a full run derives total_amount on every row of the
\* orders fact and produces daily_revenue with one row per distinct calendar
\* date, daily_revenue the sum of total_amount of that date and avg_order_value
\* daily_revenue / order_count.
C2_PlainOrdersDailyRevenue ==
    (pc = "upload_kpis" /\ PlainOrdersOnly /\ DatedRows(SilverRows) # <<>>) =>
        LET fact == self_facts["fact_orders"]
            days == {DayOf(r["order_date"]) : r \in Range(DatedRows(SilverRows))}
        IN  /\ Len(fact.rows) = Len(SilverRows)
            /\ \A i \in 1..Len(fact.rows) :
                  fact.rows[i]["total_amount"]
                  = SilverRows[i]["quantity"] * SilverRows[i]["unit_price"]
            /\ "daily_revenue" \in DOMAIN out
            /\ Len(out["daily_revenue"].rows) = Cardinality(days)
            /\ {r["date"] : r \in Range(out["daily_revenue"].rows)} = days
            /\ \A r \in Range(out["daily_revenue"].rows) :
                  /\ r["daily_revenue"]
                     = SumSeq([i \in 1..Len(DatedRows(fact.rows)) |->
                          IF DayOf(DatedRows(fact.rows)[i]["order_date"]) = r["date"]
                          THEN DatedRows(fact.rows)[i]["total_amount"] ELSE 0])
                  /\ r["avg_order_value"] = Quot(r["daily_revenue"], r["order_count"])

\* the KPIs whose own computation does not fail on these facts and files
ComputableKpis(facts, blobs) ==
    (IF RevenueRaises(facts) THEN {} ELSE DOMAIN RevenueKpis(facts))
    \cup (IF "fact_performance" \in DOMAIN facts /\ ~ VehiclePerformanceRaises(facts)
          THEN {"vehicle_performance"} ELSE {})
    \cup (IF "fact_inventory" \in DOMAIN facts /\ ~ InventoryTurnoverRaises(facts)
          THEN {"inventory_turnover"} ELSE {})
    \cup DOMAIN CalculateSupplyChainKpis(blobs)

\* C3: KPI computations are isolated: when computing one KPI fails, every
\* other KPI that can be computed is still returned by _calculate_kpis.
C3_KpisIsolated ==
    pc = "upload_kpis" => ComputableKpis(self_facts, silver) \subseteq DOMAIN out

\* the views whose own construction does not fail on these KPIs and dimensions
BuildableViews(kpis, dims) ==
    (IF RevenueViewWanted(kpis, dims) THEN {"revenue_analytics"} ELSE {})
    \cup (IF PerformanceViewWanted(kpis, dims) /\ ~ PerformanceViewRaises(kpis, dims)
          THEN {"performance_analytics"} ELSE {})
    \cup (IF InventoryViewWanted(kpis, dims) /\ ~ InventoryViewRaises(kpis, dims)
          THEN {"inventory_analytics"} ELSE {})

\* C4: in the dimension, fact and view stages an exception raised while one
\* output is constructed removes only that output: every sibling output that
\* can be built is returned by the stage.
C4_OutputsIsolated ==
    /\ pc = "upload_dimensions" =>
          \A c \in Range(DimCategories) :
              DimData(Frames(silver), c) # <<>> => DimName(c) \in DOMAIN out
    /\ pc = "upload_facts" =>
          \A c \in Range(FactCategories) :
              FactData(Frames(silver), c) # <<>> => FactName(c) \in DOMAIN out
    /\ pc = "upload_views" =>
          BuildableViews(self_kpis, self_dimensions) \subseteq DOMAIN out

\* the KPI table, the dimension and the join key of a view
ViewKpi(v) ==
    CASE v = "revenue_analytics" -> "daily_revenue"
      [] v = "performance_analytics" -> "vehicle_performance"
      [] v = "inventory_analytics" -> "inventory_turnover"

ViewDim(v) ==
    CASE v = "revenue_analytics" -> "dim_time"
      [] v = "performance_analytics" -> "dim_vehicle"
      [] v = "inventory_analytics" -> "dim_product"

ViewKey(v) ==
    CASE v = "revenue_analytics" -> "date"
      [] v = "performance_analytics" -> "vehicle_id"
      [] v = "inventory_analytics" -> "product_id"

KeyUnique(rows, key) ==
    \A i, j \in 1..Len(rows) : rows[i][key] = rows[j][key] => i = j

\* C5 as claimed: every analytics view has exactly as many rows as its KPI
\* table, whatever dimension tables the run produced.
C5_ViewRowsEqualKpiRows ==
    pc = "upload_views" =>
        \A v \in DOMAIN out :
            Len(out[v].rows) = Len(self_kpis[ViewKpi(v)].rows)

\* C5 as amended: revenue_analytics has exactly as many rows as daily_revenue;
\* performance_analytics and inventory_analytics have at least as many rows as
\* their KPI table, and exactly as many when no two rows of the dimension have
\* the same join key.
C5_ViewRowsGivenUniqueKeys ==
    pc = "upload_views" =>
        \A v \in DOMAIN out :
            LET kpiRows == Len(self_kpis[ViewKpi(v)].rows)
            IN  /\ Len(out[v].rows) >= kpiRows
                /\ v = "revenue_analytics" => Len(out[v].rows) = kpiRows
                /\ (v # "revenue_analytics"
                    /\ KeyUnique(self_dimensions[ViewDim(v)].rows, ViewKey(v)))
                        => Len(out[v].rows) = kpiRows

\* a performance view over a vehicle dimension with unique ids, in which one
\* vehicle of the KPI table is matched and another is not
C5_Witness ==
    /\ pc = "upload_views"
    /\ "performance_analytics" \in DOMAIN out
    /\ KeyUnique(self_dimensions["dim_vehicle"].rows, "vehicle_id")
    /\ \E r \in Range(out["performance_analytics"].rows) : r["make"] = NaN
    /\ \E r \in Range(out["performance_analytics"].rows) : r["make"] # NaN

----------------------------------------------------------------------------

\* C6 as claimed: two runs over an unchanged silver container produce the same
\* dimension, fact, KPI and view tables.
C6_RunsIdentical ==
    (run = MaxRuns /\ pc = "done") =>
        \A r \in 2..Len(built) : built[r] = built[1]

\* a dictionary without one of its tables
Without(d, name) == [n \in DOMAIN d \ {name} |-> d[n]]

\* revenue_analytics restricted to the columns of daily_revenue
RevenueFigures(run_built) ==
    IF "revenue_analytics" \in DOMAIN run_built.views
    THEN <<Project(run_built.views["revenue_analytics"],
                   run_built.kpis["daily_revenue"].cols)>>
    ELSE <<>>

\* C6 as amended: two runs over an unchanged silver container produce the same
\* fact and KPI tables, the same dimension tables other than dim_time, the same
\* performance_analytics and inventory_analytics, and a revenue_analytics with
\* the same rows in the columns of daily_revenue; dim_time and the time
\* attributes joined into revenue_analytics follow the clock.
C6_RunsIdenticalButForTime ==
    (run = MaxRuns /\ pc = "done") =>
        \A r \in 2..Len(built) :
            /\ built[r].facts = built[1].facts
            /\ built[r].kpis = built[1].kpis
            /\ Without(built[r].dimensions, "dim_time")
               = Without(built[1].dimensions, "dim_time")
            /\ DOMAIN built[r].views = DOMAIN built[1].views
            /\ Without(built[r].views, "revenue_analytics")
               = Without(built[1].views, "revenue_analytics")
            /\ RevenueFigures(built[r]) = RevenueFigures(built[1])

\* two finished runs that built facts, KPIs, a vehicle dimension and views, the
\* second with another dim_time than the first
C6_Witness ==
    /\ run = MaxRuns
    /\ pc = "done"
    /\ built[1].dimensions["dim_time"] # built[MaxRuns].dimensions["dim_time"]
    /\ "dim_vehicle" \in DOMAIN built[MaxRuns].dimensions
    /\ "fact_orders" \in DOMAIN built[MaxRuns].facts
    /\ "daily_revenue" \in DOMAIN built[MaxRuns].kpis
    /\ {"revenue_analytics", "performance_analytics"} \subseteq DOMAIN built[MaxRuns].views

----------------------------------------------------------------------------

\* the dimension categories whose table the run built
BuiltDimensions == {c \in Range(DimCategories) : DimName(c) \in DOMAIN self_dimensions}

\* rows i and j of t agree on every column of cols that t has
Agree(t, i, j, cols) == \A x \in t.cols \cap cols : t.rows[i][x] = t.rows[j][x]

\* C7: no dimension table (customer, product, vehicle, supplier, warehouse,
\* geography) has two rows that agree on all attribute allow-list columns.
C7_NoDuplicateDimensionRows ==
    pc # "idle" =>
        \A c \in BuiltDimensions :
            LET t == self_dimensions[DimName(c)]
            IN  \A i, j \in 1..Len(t.rows) : Agree(t, i, j, DimAllow(c)) => i = j

\* the rows the silver files feeding a dimension category hold, projected to the
\* allow-list and widened to all its columns present, in listing order
SourceDimensionRows(c) ==
    LET feeding == SelectSeq(Frames(silver), LAMBDA b : FeedsDimension(b, c))
        cols    == UNION {feeding[i].table.cols \cap DimAllow(c) : i \in 1..Len(feeding)}
    IN  Flatten([i \in 1..Len(feeding) |->
            [j \in 1..Len(feeding[i].table.rows) |->
                [x \in cols |-> IF x \in feeding[i].table.cols
                                THEN feeding[i].table.rows[j][x] ELSE NaN]]])

\* a vehicle dimension built from two files that repeat a row within a file and
\* across the files
C7_Witness ==
    /\ pc = "upload_only"
    /\ "dim_vehicle" \in DOMAIN self_dimensions
    /\ Len(Frames(silver)) = 2
    /\ LET src == SourceDimensionRows("vehicle")
       IN  /\ Len(self_dimensions["dim_vehicle"].rows) >= 2
           /\ Len(src) >= Len(self_dimensions["dim_vehicle"].rows) + 2
           /\ \E i \in 1..Len(silver[1].table.rows), j \in 1..Len(silver[2].table.rows) :
                 silver[1].table.rows[i] = silver[2].table.rows[j]
           /\ \E i, j \in 1..Len(silver[1].table.rows) :
                 i # j /\ silver[1].table.rows[i] = silver[1].table.rows[j]

\* row i of dimension table t without its surrogate key
Attributes(t, c, i) == [x \in t.cols \ {c \o "_key"} |-> t.rows[i][x]]

\* the position at which a row is first seen among the source rows
FirstSeen(src, row) == CHOOSE k \in 1..Len(src) :
                          src[k] = row /\ \A m \in 1..(k - 1) : src[m] # row

\* C8: in every dimension table with N rows the surrogate key column holds
\* exactly 1..N, the row at position i has key i, and the rows stand in the
\* order in which they are first seen in the concatenated sources.
C8_SurrogateKeyIsPosition ==
    pc # "idle" =>
        \A c \in BuiltDimensions :
            LET t   == self_dimensions[DimName(c)]
                N   == Len(t.rows)
                key == c \o "_key"
                src == SourceDimensionRows(c)
            IN  /\ {t.rows[i][key] : i \in 1..N} = 1..N
                /\ \A i \in 1..N : t.rows[i][key] = i
                /\ \A i \in 1..N : \E k \in 1..Len(src) : src[k] = Attributes(t, c, i)
                /\ \A k \in 1..Len(src) : \E i \in 1..N : src[k] = Attributes(t, c, i)
                /\ \A i, j \in 1..N :
                      i < j => FirstSeen(src, Attributes(t, c, i))
                               < FirstSeen(src, Attributes(t, c, j))

\* a dimension of three rows from two files, a later source row having been
\* dropped as a repetition of an earlier one
C8_Witness ==
    /\ pc = "upload_only"
    /\ \E c \in BuiltDimensions :
          /\ Len(self_dimensions[DimName(c)].rows) >= 3
          /\ Len(SelectSeq(Frames(silver), LAMBDA b : FeedsDimension(b, c))) = 2
          /\ Len(SourceDimensionRows(c)) > Len(self_dimensions[DimName(c)].rows)
          /\ self_dimensions[DimName(c)].rows[3][c \o "_key"] = 3

----------------------------------------------------------------------------

\* the fact categories whose table the run built
BuiltFacts == {c \in Range(FactCategories) : FactName(c) \in DOMAIN self_facts}

\* the silver files appended to a fact category
FactSources(c) ==
    SelectSeq(silver, LAMBDA b : /\ b.readable
                                 /\ EndsWith(b.name, SilverSuffix)
                                 /\ FactBranch(b.name) = c
                                 /\ b.table.cols \cap FactAllow(c) # {})

\* C9: every fact table has as many rows as its sources have together;
\* concatenation drops, merges and adds no row, also when the sources have
\* different column subsets.
C9_FactRowsAreSourceRows ==
    pc # "idle" =>
        \A c \in BuiltFacts :
            Len(self_facts[FactName(c)].rows)
            = SumSeq([i \in 1..Len(FactSources(c)) |-> Len(FactSources(c)[i].table.rows)])

\* an orders fact of four rows from two sources with different column subsets
C9_Witness ==
    /\ pc = "upload_only"
    /\ "fact_orders" \in DOMAIN self_facts
    /\ Len(FactSources("orders")) = 2
    /\ Len(self_facts["fact_orders"].rows) = 2 * MaxRows
    /\ FactSources("orders")[1].table.cols \cap OrdersFactCols
       # FactSources("orders")[2].table.cols \cap OrdersFactCols

----------------------------------------------------------------------------

\* C10: at any clock reading the time dimension has exactly 731 rows, one per
\* consecutive calendar day from the day 730 days before the reading through
\* the day of the reading, with distinct date_key values.  Stated of the
\* dictionary as _create_dimension_tables returns it, before the uploads.
C10_TimeDimensionWindow ==
    (pc = "upload_only" /\ todo = Keys(self_dimensions, DimOrder)) =>
        LET rows == Rows(self_dimensions["dim_time"])
        IN  /\ Len(rows) = 731
            /\ DayOf(rows[1]["date"]) = DayOf(now) - 730
            /\ DayOf(rows[Len(rows)]["date"]) = DayOf(now)
            /\ \A i \in 1..(Len(rows) - 1) :
                  /\ DayOf(rows[i + 1]["date"]) = DayOf(rows[i]["date"]) + 1
                  /\ rows[i + 1]["date_key"] > rows[i]["date_key"]

\* a time dimension generated after the start of a day in March, its window
\* running over the leap day of 2024
C10_Witness ==
    /\ pc = "upload_only"
    /\ "dim_time" \in DOMAIN self_dimensions
    /\ now % TicksPerDay # 0
    /\ Civil(DayOf(now)).month = 3
    /\ \E r \in Range(Rows(self_dimensions["dim_time"])) : r["date_key"] = 20240229

----------------------------------------------------------------------------

\* the revenue column of a revenue KPI table
RevenueColumn(kpi) ==
    IF kpi = "daily_revenue" THEN "daily_revenue" ELSE "monthly_revenue"

\* the revenue KPI tables the KPI stage returned
RevenueTables == {"daily_revenue", "monthly_revenue"} \cap DOMAIN out

\* C11: in every row of daily_revenue and monthly_revenue avg_order_value is
\* 0.0 when order_count is 0 and revenue / order_count otherwise; it is never
\* a quotient by zero and never a missing value.
C11_AvgOrderValueDefined ==
    pc = "upload_kpis" =>
        \A n \in RevenueTables :
            \A r \in Range(out[n].rows) :
                /\ r["order_count"] = 0 => r["avg_order_value"] = <<0, 1>>
                /\ r["order_count"] # 0 =>
                      r["avg_order_value"] = <<r[RevenueColumn(n)], r["order_count"]>>
                /\ r["avg_order_value"][2] # 0
                /\ r["avg_order_value"][1] # NaN

\* a daily_revenue table with a date whose order ids are all null beside a
\* date with counted orders
C11_Witness ==
    /\ pc = "upload_kpis"
    /\ RevenueTables = {"daily_revenue", "monthly_revenue"}
    /\ \E r \in Range(out["daily_revenue"].rows) :
          r["order_count"] = 0 /\ r["daily_revenue"] > 0
    /\ \E r \in Range(out["daily_revenue"].rows) : r["order_count"] > 0
    /\ \E r \in Range(out["monthly_revenue"].rows) : r["order_count"] = 0

----------------------------------------------------------------------------

StatKeys == {"total_silver_files", "dimensions_created", "facts_created",
             "kpis_calculated", "views_created", "failed_operations"}

\* C12: process_silver_to_gold never raises: whatever listing, build and
\* upload failures occur, the statistics record holds all six keys, each a
\* non-negative integer, at every point of a run and so when it is returned.
C12_StatisticsAlwaysReturned ==
    /\ DOMAIN stats = StatKeys
    /\ \A k \in DOMAIN stats : stats[k] \in Nat

\* a run over a container with an unreadable file that returned after the
\* listing of its dimension stage raised and an upload failed
C12_Witness ==
    /\ pc = "done"
    /\ run = MaxRuns
    /\ \E i \in 1..Len(silver) : ~ silver[i].readable
    /\ stats.total_silver_files = Len(silver)
    /\ stats.dimensions_created = 0
    /\ stats.failed_operations > 0

----------------------------------------------------------------------------

\* the number of tables the stages of the run have returned so far
TablesBuilt ==
    stats.dimensions_created + stats.facts_created + stats.kpis_calculated
        + stats.views_created

\* C13: an upload failure never aborts the run: every table a stage built is
\* either written to the gold container, counted in failed_operations or still
\* waiting in the upload loop, so at return failed_operations is the number of
\* uploads that failed and is at most the number of tables built; the later
\* stages still run and their tables are counted.
C13_UploadFailuresCounted ==
    /\ stats.failed_operations + Cardinality(DOMAIN gold) + Len(todo) = TablesBuilt
    /\ pc = "done" =>
          /\ stats.failed_operations = TablesBuilt - Cardinality(DOMAIN gold)
          /\ stats.failed_operations <= TablesBuilt
          /\ stats.dimensions_created = Cardinality(DOMAIN built[1].dimensions)
          /\ stats.facts_created = Cardinality(DOMAIN built[1].facts)
          /\ stats.kpis_calculated = Cardinality(DOMAIN built[1].kpis)
          /\ stats.views_created = Cardinality(DOMAIN built[1].views)

\* a finished run whose first dimension upload failed: the other dimensions
\* and the facts, KPIs and views after it were built and written
C13_Witness ==
    /\ pc = "done"
    /\ stats.failed_operations = MaxUploadFailures
    /\ stats.dimensions_created >= 2
    /\ BlobPath("dimensions", Keys(built[1].dimensions, DimOrder)[1]) \notin DOMAIN gold
    /\ BlobPath("dimensions", "dim_time") \in DOMAIN gold
    /\ stats.facts_created > 0
    /\ stats.kpis_calculated > 0
    /\ stats.views_created > 0
    /\ Cardinality(DOMAIN gold) = TablesBuilt - 1

----------------------------------------------------------------------------

\* the container without the files that cannot be downloaded or parsed
Readable(blobs) == SelectSeq(blobs, LAMBDA b : b.readable)

\* C14: a silver file that cannot be downloaded or parsed does not abort the
\* build: the dimension and fact tables of the run are exactly those built
\* from the remaining, readable silver files.
C14_UnreadableFilesExcluded ==
    /\ pc = "upload_dimensions" =>
          out = CreateDimensionTables(Readable(silver), now)
    /\ pc = "upload_facts" =>
          /\ out = CreateFactTables(Readable(silver))
          /\ self_dimensions = CreateDimensionTables(Readable(silver), now)

\* the fact stage returned over a container whose first file is unreadable:
\* the orders file listed after it gave a customer dimension and the orders fact
C14_Witness ==
    /\ pc = "upload_facts"
    /\ Len(silver) = 2
    /\ ~ silver[1].readable
    /\ "dim_customer" \in DOMAIN self_dimensions
    /\ "fact_orders" \in DOMAIN out
    /\ Len(out["fact_orders"].rows) = Len(silver[2].table.rows)

----------------------------------------------------------------------------

\* the stages in the order of process_silver_to_gold, by their gold prefix
StagePrefixes == <<"dimensions", "facts", "kpis", "analytics">>

\* how many stages have been built when the run is at a position
StagesBuilt(at) ==
    CASE at \in {"idle", "dimensions"} -> 0
      [] at = "upload_dimensions" -> 1
      [] at = "upload_facts" -> 2
      [] at = "upload_kpis" -> 3
      [] at \in {"upload_views", "done"} -> 4

PrefixRank(prefix) == CHOOSE i \in 1..Len(StagePrefixes) : StagePrefixes[i] = prefix

\* C15: within one run the stages execute strictly in the order dimensions,
\* facts, KPIs, views: the run moves on only by one position and only when no
\* upload of the current stage is waiting, a blob is written only under the
\* prefix of the stage whose uploads are in progress, and no blob of a later
\* stage exists while an earlier stage is uploading.
C15_StagesInSequence ==
    [][ /\ pc' # pc =>
              /\ todo = <<>>
              /\ StagesBuilt(pc') \in {StagesBuilt(pc), StagesBuilt(pc) + 1}
        /\ gold' # gold =>
              /\ pc' = pc
              /\ StagesBuilt(pc) \in 1..Len(StagePrefixes)
              /\ \A path \in DOMAIN gold' \ DOMAIN gold :
                    path[1] = StagePrefixes[StagesBuilt(pc)]
        /\ \A path \in DOMAIN gold' : PrefixRank(path[1]) <= StagesBuilt(pc')
      ]_vars

\* the KPI uploads under way after a dimension upload had failed: dimension,
\* fact and KPI blobs stand in the gold container, no analytics blob
C15_Witness ==
    /\ pc = "upload_kpis"
    /\ todo # <<>>
    /\ stats.failed_operations = MaxUploadFailures
    /\ {path[1] : path \in DOMAIN gold} = {"dimensions", "facts", "kpis"}
    /\ Cardinality(DOMAIN gold) < stats.dimensions_created + stats.facts_created
                                  + stats.kpis_calculated

----------------------------------------------------------------------------

\* the readable silver files a scan has to read
SilverFiles == {b \in Range(silver) : b.readable /\ EndsWith(b.name, SilverSuffix)}

\* table t holds row r of a source, in the columns of cols the source has
HoldsRow(t, r, cols) ==
    \E i \in 1..Len(t.rows) : \A x \in DOMAIN r \cap cols : t.rows[i][x] = r[x]

\* the tables of one run hold what every silver file contributes
ReadsEverySilverFile(tables) ==
    \A b \in SilverFiles :
        /\ \A c \in Range(FactCategories) :
              FeedsFact(b, c) =>
                  /\ FactName(c) \in DOMAIN tables.facts
                  /\ \A r \in Range(b.table.rows) :
                        HoldsRow(tables.facts[FactName(c)], r,
                                 FactAllow(c) \ {"total_amount"})
        /\ \A c \in Range(DimCategories) :
              FeedsDimension(b, c) =>
                  /\ DimName(c) \in DOMAIN tables.dimensions
                  /\ \A r \in Range(b.table.rows) :
                        HoldsRow(tables.dimensions[DimName(c)], r, DimAllow(c))

\* C16: every gold run re-reads every silver blob ending in _silver.csv,
\* whatever processed_files lists and whatever earlier runs read: the facts
\* and dimensions of each finished run hold the rows of every readable silver
\* file and each fact has the rows of all its sources; and no step of a gold run
\* changes processed_files.
C16_EveryRunRescans ==
    /\ [](pc = "done" =>
            \A r \in 1..Len(built) :
                /\ ReadsEverySilverFile(built[r])
                /\ \A c \in Range(FactCategories) :
                      FactName(c) \in DOMAIN built[r].facts =>
                          Len(built[r].facts[FactName(c)].rows)
                          = SumSeq([i \in 1..Len(FactSources(c)) |->
                                       Len(FactSources(c)[i].table.rows)]))
    /\ [][processed_files' = processed_files]_vars

\* a second run finished on a processor whose metadata lists every silver file:
\* it built the orders fact and the vehicle dimension again
C16_Witness ==
    /\ pc = "done"
    /\ run = MaxRuns
    /\ DOMAIN processed_files = {silver[i].name : i \in 1..Len(silver)}
    /\ Len(silver) >= 2
    /\ "fact_orders" \in DOMAIN built[MaxRuns].facts
    /\ "dim_vehicle" \in DOMAIN built[MaxRuns].dimensions

----------------------------------------------------------------------------

\* the vocabulary tokens of a fact category and of a dimension category
FactTokens(c) ==
    CASE c = "orders" -> {TokOrders}
      [] c = "performance" -> {TokPerformance}
      [] c = "fuel_consumption" -> {TokFuel}
      [] c = "inventory" -> {TokInventory}

DimTokens(c) ==
    CASE c \in {"customer", "product"} -> {TokOrders, TokOrderItems}
      [] c = "vehicle" -> {TokVehicles}
      [] c = "supplier" -> {TokSuppliers}
      [] c = "warehouse" -> {TokWarehouses}

NamedDimCategories == {"customer", "product", "vehicle", "supplier", "warehouse"}

\* the name of blob b holds a token of the category and b has a column of its
\* allow-list
MatchesFact(b, c) ==
    /\ \E tok \in FactTokens(c) : Contains(b.name, tok)
    /\ b.table.cols \cap FactAllow(c) # {}

MatchesDimension(b, c) ==
    /\ \E tok \in DimTokens(c) : Contains(b.name, tok)
    /\ b.table.cols \cap DimAllow(c) # {}
    /\ c \in {"customer", "product"} => c \in b.table.cols

\* C17: a silver table whose blob name contains more than one vocabulary token
\* contributes its projected rows to every fact and dimension category whose
\* token the name contains, not only to the first one tested.
C17_EveryMatchingCategoryFed ==
    pc = "upload_facts" =>
        \A b \in SilverFiles :
            /\ \A c \in Range(FactCategories) :
                  MatchesFact(b, c) =>
                      /\ FactName(c) \in DOMAIN self_facts
                      /\ \A r \in Range(b.table.rows) :
                            HoldsRow(self_facts[FactName(c)], r,
                                     FactAllow(c) \ {"total_amount"})
            /\ \A c \in NamedDimCategories :
                  MatchesDimension(b, c) =>
                      /\ DimName(c) \in DOMAIN self_dimensions
                      /\ \A r \in Range(b.table.rows) :
                            HoldsRow(self_dimensions[DimName(c)], r, DimAllow(c))

\* str.lower() on the letters blob names are written with
UpperLetters == <<"A", "B", "C", "D", "E", "F", "G", "H", "I", "J", "K", "L", "M",
                  "N", "O", "P", "Q", "R", "S", "T", "U", "V", "W", "X", "Y", "Z">>
LowerLetters == <<"a", "b", "c", "d", "e", "f", "g", "h", "i", "j", "k", "l", "m",
                  "n", "o", "p", "q", "r", "s", "t", "u", "v", "w", "x", "y", "z">>

LowerChar(ch) ==
    IF \E i \in 1..Len(UpperLetters) : UpperLetters[i] = ch
    THEN LowerLetters[CHOOSE i \in 1..Len(UpperLetters) : UpperLetters[i] = ch]
    ELSE ch

Lower(name) == [i \in 1..Len(name) |-> LowerChar(name[i])]

\* the container with every blob name in lower case
Lowered(blobs) ==
    [i \in 1..Len(blobs) |-> [blobs[i] EXCEPT !.name = Lower(blobs[i].name)]]

\* C18: classification of a blob name is case-insensitive: the facts and
\* dimensions built from a container are those built from the same container
\* with every blob name written in lower case.
C18_ClassificationIgnoresCase ==
    pc = "upload_facts" =>
        /\ self_facts = CreateFactTables(Lowered(silver))
        /\ self_dimensions = CreateDimensionTables(Lowered(silver), now)

\* C19: an orders silver file with at least one customer allow-list column
\* contributes its projected rows to dim_customer, and one with at least one
\* product allow-list column contributes to dim_product, besides contributing
\* to the orders fact.
C19_OrdersFeedCustomerAndProduct ==
    pc = "upload_facts" =>
        \A b \in SilverFiles :
            DimBranch(b.name) = "orders" =>
                /\ b.table.cols \cap CustomerCols # {} =>
                      /\ "dim_customer" \in DOMAIN self_dimensions
                      /\ \A r \in Range(b.table.rows) :
                            HoldsRow(self_dimensions["dim_customer"], r, CustomerCols)
                /\ b.table.cols \cap ProductCols # {} =>
                      /\ "dim_product" \in DOMAIN self_dimensions
                      /\ \A r \in Range(b.table.rows) :
                            HoldsRow(self_dimensions["dim_product"], r, ProductCols)
                /\ b.table.cols \cap OrdersFactCols # {} =>
                      "fact_orders" \in DOMAIN self_facts

----------------------------------------------------------------------------

\* the tables the stages of the run in progress have returned
ThisRun == built[Len(built)]

\* C20: in every call of process_silver_to_gold a view is produced only if its
\* KPI table and its dimension table were both returned by the KPI and
\* dimension stages of that same call, also when an earlier call on the same
\* processor had produced them; so views_created > 0 implies
\* kpis_calculated > 0 and dimensions_created > 0.
C20_ViewsFromThisRun ==
    pc = "upload_views" =>
        /\ \A v \in DOMAIN out :
              /\ ViewKpi(v) \in DOMAIN ThisRun.kpis
              /\ ViewDim(v) \in DOMAIN ThisRun.dimensions
        /\ stats.views_created > 0 =>
              stats.kpis_calculated > 0 /\ stats.dimensions_created > 0

----------------------------------------------------------------------------
(* Several processors at once: process_silver_to_gold run by separate
   GoldLayerProcessor objects against the same two containers, while the
   silver stage may still be writing *)

Workers == 2

\* the variables of the single processor
processor == <<mode, pc, self_dimensions, self_facts, self_kpis, out, todo,
               stats, run, built, processed_files>>

\* a processor as constructed
FreshWorker ==
    [pc |-> "idle", dimensions |-> EmptyDict, facts |-> EmptyDict,
     kpis |-> EmptyDict, out |-> EmptyDict, todo |-> <<>>, stats |-> ZeroStats,
     built |-> NoTables]

\* the gold prefix an upload loop writes under
UploadPrefix(at) ==
    CASE at = "upload_dimensions" -> "dimensions"
      [] at = "upload_facts" -> "facts"
      [] at = "upload_kpis" -> "kpis"
      [] at = "upload_views" -> "analytics"

UploadLoops == {"upload_dimensions", "upload_facts", "upload_kpis", "upload_views"}

WorkerBegin(w) ==
    /\ workers[w].pc = "idle"
    /\ workers' = [workers EXCEPT
           ![w].stats = [ZeroStats EXCEPT !.total_silver_files = Len(silver)],
           ![w].pc = "dimensions"]
    /\ UNCHANGED <<bronze_stage, silver_stage, processor, silver, now, gold, incoming>>

WorkerCreateDimensions(w) ==
    /\ workers[w].pc = "dimensions"
    /\ LET d == CreateDimensionTables(silver, now)
       IN  workers' = [workers EXCEPT
               ![w].dimensions = d,
               ![w].out = d,
               ![w].todo = Keys(d, DimOrder),
               ![w].stats.dimensions_created = Cardinality(DOMAIN d),
               ![w].built.dimensions = d,
               ![w].pc = "upload_dimensions"]
    /\ UNCHANGED <<bronze_stage, silver_stage, processor, silver, now, gold, incoming>>

\* the uploads that failed so far in the first n runs
RECURSIVE FailedUploads(_)
FailedUploads(n) ==
    IF n = 0 THEN 0
    ELSE workers[n].stats.failed_operations + FailedUploads(n - 1)

\* an upload that leaves alone a blob that is already there
WorkerUploadIfAbsent(w) ==
    /\ workers[w].pc \in UploadLoops
    /\ workers[w].todo # <<>>
    /\ LET name == Head(workers[w].todo)
           prefix == UploadPrefix(workers[w].pc)
       IN  \/ /\ gold' = IF BlobPath(prefix, name) \in DOMAIN gold THEN gold
                         ELSE Uploaded(gold, prefix, name, workers[w].out[name])
              /\ workers' = [workers EXCEPT ![w].todo = Tail(@)]
           \/ /\ FailedUploads(Len(workers)) < MaxUploadFailures
              /\ gold' = gold
              /\ workers' = [workers EXCEPT
                     ![w].todo = Tail(@),
                     ![w].stats.failed_operations = @ + 1]
    /\ UNCHANGED <<bronze_stage, silver_stage, processor, silver, now, incoming>>

\* one pass of an upload loop: upload_blob(overwrite=True) replaces whatever
\* the path holds, or the upload fails and is counted
WorkerUpload(w) ==
    /\ workers[w].pc \in UploadLoops
    /\ workers[w].todo # <<>>
    /\ LET name == Head(workers[w].todo)
           prefix == UploadPrefix(workers[w].pc)
       IN  \/ /\ gold' = Uploaded(gold, prefix, name, workers[w].out[name])
              /\ workers' = [workers EXCEPT ![w].todo = Tail(@)]
           \/ /\ FailedUploads(Len(workers)) < MaxUploadFailures
              /\ gold' = gold
              /\ workers' = [workers EXCEPT
                     ![w].todo = Tail(@),
                     ![w].stats.failed_operations = @ + 1]
    /\ UNCHANGED <<bronze_stage, silver_stage, processor, silver, now, incoming>>

WorkerCreateFacts(w) ==
    /\ workers[w].pc = "upload_dimensions"
    /\ workers[w].todo = <<>>
    /\ LET f == CreateFactTables(silver)
       IN  workers' = [workers EXCEPT
               ![w].facts = f,
               ![w].out = f,
               ![w].todo = Keys(f, FactOrder),
               ![w].stats.facts_created = Cardinality(DOMAIN f),
               ![w].built.facts = f,
               ![w].pc = "upload_facts"]
    /\ UNCHANGED <<bronze_stage, silver_stage, processor, silver, now, gold, incoming>>

WorkerCalculateKpis(w) ==
    /\ workers[w].pc = "upload_facts"
    /\ workers[w].todo = <<>>
    /\ LET k == CalculateKpis(workers[w].facts, silver)
       IN  workers' = [workers EXCEPT
               ![w].kpis = IF KpisRaise(workers[w].facts) THEN @ ELSE k,
               ![w].out = k,
               ![w].todo = Keys(k, KpiOrder),
               ![w].stats.kpis_calculated = Cardinality(DOMAIN k),
               ![w].built.kpis = k,
               ![w].pc = "upload_kpis"]
    /\ UNCHANGED <<bronze_stage, silver_stage, processor, silver, now, gold, incoming>>

WorkerCreateViews(w) ==
    /\ workers[w].pc = "upload_kpis"
    /\ workers[w].todo = <<>>
    /\ LET v == CreateAnalyticsViews(workers[w].kpis, workers[w].dimensions)
       IN  workers' = [workers EXCEPT
               ![w].out = v,
               ![w].todo = Keys(v, ViewOrder),
               ![w].stats.views_created = Cardinality(DOMAIN v),
               ![w].built.views = v,
               ![w].pc = "upload_views"]
    /\ UNCHANGED <<bronze_stage, silver_stage, processor, silver, now, gold, incoming>>

WorkerFinish(w) ==
    /\ workers[w].pc = "upload_views"
    /\ workers[w].todo = <<>>
    /\ workers' = [workers EXCEPT ![w].pc = "done"]
    /\ UNCHANGED <<bronze_stage, silver_stage, processor, silver, now, gold, incoming>>

\* the silver stage writes its next blob
SilverWrites ==
    /\ incoming # <<>>
    /\ silver' = Append(silver, Head(incoming))
    /\ incoming' = Tail(incoming)
    /\ UNCHANGED <<bronze_stage, silver_stage, processor, now, gold, workers>>

NextConcurrent ==
    \/ \E w \in DOMAIN workers : WorkerBegin(w)
    \/ \E w \in DOMAIN workers : WorkerCreateDimensions(w)
    \/ \E w \in DOMAIN workers : WorkerUpload(w)
    \/ \E w \in DOMAIN workers : WorkerCreateFacts(w)
    \/ \E w \in DOMAIN workers : WorkerCalculateKpis(w)
    \/ \E w \in DOMAIN workers : WorkerCreateViews(w)
    \/ \E w \in DOMAIN workers : WorkerFinish(w)
    \/ SilverWrites

\* the table of the rows of a pool after its first MaxRows
Remainders(pool) ==
    {[cols |-> DOMAIN pool[1], rows |-> SubSeq(pool, MaxRows + 1, Len(pool))]}

\* an orders file in the container and a second one on its way
InitConcurrent ==
    /\ \E a \in Prefixes(OrdersPartyPool) : silver = <<Blob(NameOrdersA, a)>>
    /\ \E b \in Remainders(OrdersPartyPool) : incoming = <<Blob(NameOrdersB, b)>>
    /\ workers = [w \in 1..Workers |-> FreshWorker]
    /\ now = BaseDay * TicksPerDay
    /\ gold = EmptyDict
    /\ mode = "full"
    /\ pc = "done"
    /\ self_dimensions = EmptyDict
    /\ self_facts = EmptyDict
    /\ self_kpis = EmptyDict
    /\ out = EmptyDict
    /\ todo = <<>>
    /\ stats = ZeroStats
    /\ run = 0
    /\ built = <<>>
    /\ processed_files = EmptyDict
    /\ bronze = <<>>
    /\ silver_container = <<>>
    /\ silver_processor = <<>>
    /\ silver_metadata = <<>>
    /\ BronzeIdle

SpecConcurrent == InitConcurrent /\ [][NextConcurrent]_vars

\* C21: nothing excludes one run from another: whenever a run's upload loop
\* passes a table without counting a failure, the table's path holds that
\* run's table from then on until the next write, whatever the path held and
\* whichever run had put it there; the last writer wins.
C21_LastWriterWins ==
    [][\A w \in DOMAIN workers :
          ( /\ workers[w].pc \in UploadLoops
            /\ workers[w].todo # <<>>
            /\ workers'[w].todo = Tail(workers[w].todo)
            /\ workers'[w].stats = workers[w].stats )
          => LET name == Head(workers[w].todo)
                 path == BlobPath(UploadPrefix(workers[w].pc), name)
             IN  /\ path \in DOMAIN gold'
                 /\ gold'[path] = workers[w].out[name]
                 /\ \A q \in DOMAIN gold \ {path} :
                        q \in DOMAIN gold' /\ gold'[q] = gold[q]]_vars

\* the tables a finished run put under a prefix, were it the only writer
WorkerTables(w, prefix) ==
    CASE prefix = "dimensions" -> workers[w].built.dimensions
      [] prefix = "facts" -> workers[w].built.facts
      [] prefix = "kpis" -> workers[w].built.kpis
      [] prefix = "analytics" -> workers[w].built.views

\* every blob under the prefix is the table of run w and not that of run v
HoldsTablesOf(prefix, w, v) ==
    /\ \E path \in DOMAIN gold : path[1] = prefix
    /\ \A path \in DOMAIN gold :
          path[1] = prefix =>
             /\ path[2] \in DOMAIN WorkerTables(w, prefix)
             /\ gold[path] = WorkerTables(w, prefix)[path[2]]
    /\ \E path \in DOMAIN gold :
          /\ path[1] = prefix
          /\ path[2] \in DOMAIN WorkerTables(v, prefix)
          /\ gold[path] # WorkerTables(v, prefix)[path[2]]

\* both runs are over, no upload of either failed, they listed different
\* silver snapshots, and the gold container holds the dimensions of one and
\* the facts and KPIs of the other
C21_Witness ==
    /\ \A w \in DOMAIN workers :
          workers[w].pc = "done" /\ workers[w].stats.failed_operations = 0
    /\ \E w, v \in DOMAIN workers :
          /\ w # v
          /\ workers[w].built.facts # workers[v].built.facts
          /\ HoldsTablesOf("dimensions", w, v)
          /\ HoldsTablesOf("facts", v, w)
          /\ HoldsTablesOf("kpis", v, w)

----------------------------------------------------------------------------
(* The revenue KPIs *)

\* the rows of the daily table that fall in a year-month
DaysOfMonth(daily, ym) ==
    SelectSeq(daily.rows, LAMBDA r : YearMonth(r["date"]) = ym)

\* C22: monthly_revenue is daily_revenue regrouped by calendar year-month.
\* Whenever a run computed the revenue KPIs, it computed both; the year-months
\* of the monthly table are those of the days of the daily table, one row
\* each; a month's monthly_revenue and order_count are the sums of the daily
\* values of its days; and the totals over the monthly table are those of the
\* fact_orders rows that have a valid order_date.
C22_MonthlyRegroupsDaily ==
    \A r \in 1..Len(built) :
        LET k == built[r].kpis
        IN  /\ "daily_revenue" \in DOMAIN k <=> "monthly_revenue" \in DOMAIN k
            /\ "monthly_revenue" \in DOMAIN k =>
                  LET daily == k["daily_revenue"]
                      monthly == k["monthly_revenue"].rows
                      dated == DropUndated(OrdersForRevenue(
                                   built[r].facts["fact_orders"])).rows
                  IN  /\ {monthly[i]["year_month"] : i \in 1..Len(monthly)}
                            = {YearMonth(daily.rows[j]["date"]) :
                                  j \in 1..Len(daily.rows)}
                      /\ \A i, j \in 1..Len(monthly) :
                            monthly[i]["year_month"] = monthly[j]["year_month"]
                               => i = j
                      /\ \A i \in 1..Len(monthly) :
                            LET days == DaysOfMonth(daily, monthly[i]["year_month"])
                            IN  /\ monthly[i]["monthly_revenue"]
                                      = ColSum(days, "daily_revenue")
                                /\ monthly[i]["order_count"]
                                      = ColSum(days, "order_count")
                      /\ ColSum(monthly, "monthly_revenue")
                            = ColSum(dated, "total_amount")
                      /\ ColSum(monthly, "order_count") = ColCount(dated, "order_id")

\* a run whose monthly table has two months, one of them summed over two days
\* that hold different revenues and counts
C22_Witness ==
    /\ pc = "done"
    /\ "monthly_revenue" \in DOMAIN built[1].kpis
    /\ LET daily == built[1].kpis["daily_revenue"]
           monthly == built[1].kpis["monthly_revenue"].rows
       IN  /\ Len(monthly) = 2
           /\ \E i \in 1..Len(monthly) :
                 LET days == DaysOfMonth(daily, monthly[i]["year_month"])
                 IN  /\ Len(days) = 2
                     /\ days[1]["daily_revenue"] # days[2]["daily_revenue"]
                     /\ days[1]["order_count"] # days[2]["order_count"]

----------------------------------------------------------------------------
(* The revenue view and the time dimension *)

\* the calendar day lies in the window of the time dimension built at `at`
InTimeWindow(day, at) ==
    /\ DayOf(WindowStart(at)) <= day
    /\ day <= DayOf(at)

\* C23: every revenue_analytics row whose calendar date lies inside the window
\* of the time dimension carries the year, quarter, month, month_name and
\* day_name of that calendar day, at whatever time of day the run executes.
C23_RevenueViewCarriesDayAttributes ==
    \A r \in 1..Len(built) :
        "revenue_analytics" \in DOMAIN built[r].views =>
            LET view == built[r].views["revenue_analytics"].rows
            IN  \A i \in 1..Len(view) :
                   InTimeWindow(DayOf(view[i]["date"]), now) =>
                      \A c \in RevenueViewTimeCols \ {"date"} :
                         view[i][c] = TimeRow(view[i]["date"])[c]

----------------------------------------------------------------------------
(* The silver stage: SilverLayerProcessor.process_bronze_to_silver *)

Slash == "/"
Underscore == "_"
CsvExtension == <<".", "c", "s", "v">>

\* the positions of a character in a name
Positions(s, ch) == {i \in 1..Len(s) : s[i] = ch}

Greatest(S) == CHOOSE x \in S : \A y \in S : y <= x
Least(S) == CHOOSE x \in S : \A y \in S : x <= y

\* name.split('/')[-1]
LastSegment(name) ==
    IF Positions(name, Slash) = {} THEN name
    ELSE SubSeq(name, Greatest(Positions(name, Slash)) + 1, Len(name))

\* '/'.join(name.split('/')[:-1])
DirectoryPath(name) ==
    IF Positions(name, Slash) = {} THEN <<>>
    ELSE SubSeq(name, 1, Greatest(Positions(name, Slash)) - 1)

\* s.split(ch)[0]
FirstField(s, ch) ==
    IF Positions(s, ch) = {} THEN s
    ELSE SubSeq(s, 1, Least(Positions(s, ch)) - 1)

\* the file type taken as all that precedes the last underscore
FileTypeToLastUnderscore(source_blob) ==
    LET filename == LastSegment(source_blob)
    IN  Lower(IF Positions(filename, Underscore) = {} THEN filename
              ELSE SubSeq(filename, 1,
                          Greatest(Positions(filename, Underscore)) - 1))

\* source_blob.split('/')[-1].split('_')[0].lower()
FileType(source_blob) == Lower(FirstField(LastSegment(source_blob), Underscore))

\* the file types the if/elif chain of _apply_business_transformations names
BusinessTypes ==
    {<<"o", "r", "d", "e", "r", "s">>,
     <<"p", "e", "r", "f", "o", "r", "m", "a", "n", "c", "e">>,
     <<"f", "u", "e", "l">>,
     <<"f", "u", "l", "f", "i", "l", "l", "m", "e", "n", "t">>,
     <<"i", "n", "v", "e", "n", "t", "o", "r", "y">>,
     <<"m", "a", "i", "n", "t", "e", "n", "a", "n", "c", "e">>,
     <<"o", "r", "d", "e", "r", "_", "i", "t", "e", "m", "s">>,
     <<"r", "o", "u", "t", "e", "s">>,
     <<"s", "c", "h", "e", "d", "u", "l", "e", "s">>,
     <<"s", "u", "p", "p", "l", "i", "e", "r", "s">>,
     <<"s", "u", "p", "p", "l", "y", "_", "c", "h", "a", "i", "n", "_", "m", "e", "t", "r", "i", "c", "s">>,
     <<"t", "e", "l", "e", "m", "e", "t", "r", "y">>,
     <<"v", "e", "h", "i", "c", "l", "e", "s">>,
     <<"w", "a", "r", "e", "h", "o", "u", "s", "e", "s">>}

\* no branch of the chain: the else that skips the business transformations
NoBranch == <<>>

\* the branch of the chain that a file type selects
BusinessBranch(file_type) ==
    IF file_type \in BusinessTypes THEN file_type ELSE NoBranch

\* _get_silver_blob_name
SilverBlobName(bronze_blob_name) ==
    LET base_name == Remove(LastSegment(bronze_blob_name), CsvExtension)
        silver_filename == base_name \o SilverSuffix
        directory_path == DirectoryPath(bronze_blob_name)
    IN  IF directory_path # <<>> THEN directory_path \o <<Slash>> \o silver_filename
        ELSE silver_filename

\* b.name.lower().endswith('.csv')
IsCsvBlob(name) == EndsWith(Lower(name), CsvExtension)

\* _transform_data, as far as the stage's bookkeeping sees it: the branch of
\* the business transformations that ran, the rows left by drop_duplicates,
\* and the _source_file column.  The cleaning of the cells is not modelled.
TransformData(df, source_blob) ==
    [branch |-> BusinessBranch(FileType(source_blob)),
     rows |-> DedupRows(df, {}),
     source_file |-> source_blob]

NameBronzeOrders == <<"o", "r", "d", "e", "r", "s", "_", "a", ".", "c", "s", "v">>
NameBronzeOrderItems == <<"o", "r", "d", "e", "r", "_", "i", "t", "e", "m", "s", "_", "a", ".", "c", "s", "v">>
NameBronzeMetrics == <<"d", "/", "S", "u", "p", "p", "l", "y", "_", "C", "h", "a", "i", "n", "_", "M", "e", "t", "r", "i", "c", "s", ".", "C", "S", "V">>
NameBronzeNotes == <<"f", "u", "e", "l", "_", "n", "o", "t", "e", "s", ".", "t", "x", "t">>

\* list_blobs returns the names in lexicographic order
BronzeListing ==
    <<NameBronzeMetrics, NameBronzeNotes, NameBronzeOrderItems, NameBronzeOrders>>

\* what a bronze blob may hold: rows as uploaded, and rows of a later upload
BronzeContents == <<  <<1, 1, 2>>, <<3>>  >>

MaxOverwrites == 1

ZeroSilverStats ==
    [total_bronze_files |-> 0, processed_files |-> 0, skipped_files |-> 0,
     failed_files |-> 0, total_rows_processed |-> 0]

\* the launcher constructs a processor, whose __init__ loads the metadata
\* file, and calls process_bronze_to_silver, which lists the CSV blobs
SilverLaunch ==
    /\ silver_processor.pc = "idle"
    /\ LET bronze_blobs == SelectSeq(BronzeListing,
                               LAMBDA n : n \in DOMAIN bronze /\ IsCsvBlob(n))
       IN  silver_processor' = [silver_processor EXCEPT
               !.pc = "loop",
               !.processed_files = silver_metadata,
               !.queue = bronze_blobs,
               !.stats = [ZeroSilverStats EXCEPT
                             !.total_bronze_files = Len(bronze_blobs)]]
    /\ UNCHANGED <<bronze_stage, processor, silver, now, gold, workers, incoming, bronze,
                   silver_container, silver_metadata>>

\* list_blobs raises: the outer except returns the statistics as initialised
\* and the metadata file is not written
SilverListFails ==
    /\ silver_processor.pc = "idle"
    /\ silver_processor' = [silver_processor EXCEPT
           !.pc = "done",
           !.processed_files = silver_metadata,
           !.queue = <<>>,
           !.stats = ZeroSilverStats,
           !.runs = @ + 1]
    /\ UNCHANGED <<bronze_stage, processor, silver, now, gold, workers, incoming, bronze,
                   silver_container, silver_metadata>>

\* a pass of the loop that records the blob before its upload is known to
\* have succeeded
SilverStepRecordingEarly ==
    /\ silver_processor.pc = "loop"
    /\ silver_processor.queue # <<>>
    /\ LET blob_name == Head(silver_processor.queue)
           df_transformed == TransformData(bronze[blob_name], blob_name)
           recorded == [silver_processor EXCEPT
                          !.queue = Tail(@),
                          !.processed_files =
                              Put(@, blob_name, Len(df_transformed.rows))]
       IN  IF blob_name \in DOMAIN silver_processor.processed_files
           THEN /\ silver_processor' = [silver_processor EXCEPT
                       !.queue = Tail(@), !.stats.skipped_files = @ + 1]
                /\ silver_container' = silver_container
           ELSE \/ /\ silver_processor' = [recorded EXCEPT
                          !.stats.failed_files = @ + 1]
                   /\ silver_container' = silver_container
                \/ /\ silver_container' = Put(silver_container,
                                              SilverBlobName(blob_name),
                                              df_transformed)
                   /\ silver_processor' = [recorded EXCEPT
                          !.stats.processed_files = @ + 1,
                          !.stats.total_rows_processed =
                              @ + Len(df_transformed.rows)]
    /\ UNCHANGED <<bronze_stage, processor, silver, now, gold, workers, incoming, bronze,
                   silver_metadata>>

\* a pass of the loop that counts a failed blob twice
SilverStepCountingTwice ==
    /\ silver_processor.pc = "loop"
    /\ silver_processor.queue # <<>>
    /\ LET blob_name == Head(silver_processor.queue)
           df_transformed == TransformData(bronze[blob_name], blob_name)
       IN  IF blob_name \in DOMAIN silver_processor.processed_files
           THEN /\ silver_processor' = [silver_processor EXCEPT
                       !.queue = Tail(@), !.stats.skipped_files = @ + 1]
                /\ silver_container' = silver_container
           ELSE \/ /\ silver_processor' = [silver_processor EXCEPT
                          !.queue = Tail(@),
                          !.stats.failed_files = @ + 1,
                          !.stats.skipped_files = @ + 1]
                   /\ silver_container' = silver_container
                \/ /\ silver_container' = Put(silver_container,
                                              SilverBlobName(blob_name),
                                              df_transformed)
                   /\ silver_processor' = [silver_processor EXCEPT
                          !.queue = Tail(@),
                          !.processed_files =
                              Put(@, blob_name, Len(df_transformed.rows)),
                          !.stats.processed_files = @ + 1,
                          !.stats.total_rows_processed =
                              @ + Len(df_transformed.rows)]
    /\ UNCHANGED <<bronze_stage, processor, silver, now, gold, workers, incoming, bronze,
                   silver_metadata>>

\* one pass of the loop over the bronze blobs: the blob is skipped when its
\* name is in processed_files; else it is downloaded, transformed and
\* uploaded, and recorded, or one of the three fails and it is counted failed
SilverStep ==
    /\ silver_processor.pc = "loop"
    /\ silver_processor.queue # <<>>
    /\ LET blob_name == Head(silver_processor.queue)
           df_transformed == TransformData(bronze[blob_name], blob_name)
       IN  IF blob_name \in DOMAIN silver_processor.processed_files
           THEN /\ silver_processor' = [silver_processor EXCEPT
                       !.queue = Tail(@), !.stats.skipped_files = @ + 1]
                /\ silver_container' = silver_container
           ELSE \/ /\ silver_processor' = [silver_processor EXCEPT
                          !.queue = Tail(@), !.stats.failed_files = @ + 1]
                   /\ silver_container' = silver_container
                \/ /\ silver_container' = Put(silver_container,
                                              SilverBlobName(blob_name),
                                              df_transformed)
                   /\ silver_processor' = [silver_processor EXCEPT
                          !.queue = Tail(@),
                          !.processed_files =
                              Put(@, blob_name, Len(df_transformed.rows)),
                          !.stats.processed_files = @ + 1,
                          !.stats.total_rows_processed =
                              @ + Len(df_transformed.rows)]
    /\ UNCHANGED <<bronze_stage, processor, silver, now, gold, workers, incoming, bronze,
                   silver_metadata>>

\* the loop is over: _save_metadata, and the statistics are returned
SilverFinish ==
    /\ silver_processor.pc = "loop"
    /\ silver_processor.queue = <<>>
    /\ silver_metadata' = silver_processor.processed_files
    /\ silver_processor' = [silver_processor EXCEPT !.pc = "done", !.runs = @ + 1]
    /\ UNCHANGED <<bronze_stage, processor, silver, now, gold, workers, incoming, bronze,
                   silver_container>>

\* the launcher is started once more
SilverAgain ==
    /\ silver_processor.pc = "done"
    /\ silver_processor.runs < MaxRuns
    /\ silver_processor' = [silver_processor EXCEPT !.pc = "idle"]
    /\ UNCHANGED <<bronze_stage, processor, silver, now, gold, workers, incoming, bronze,
                   silver_container, silver_metadata>>

\* BronzeLayerProcessor._upload_file_to_azure, upload_blob(overwrite=True): the
\* bronze stage uploads a changed file under the path of a blob it uploaded
\* before
BronzeOverwrites ==
    /\ silver_processor.overwrites < MaxOverwrites
    /\ \E n \in DOMAIN bronze :
          /\ bronze[n] = BronzeContents[1]
          /\ bronze' = [bronze EXCEPT ![n] = BronzeContents[2]]
    /\ silver_processor' = [silver_processor EXCEPT !.overwrites = @ + 1]
    /\ UNCHANGED <<bronze_stage, processor, silver, now, gold, workers, incoming,
                   silver_container, silver_metadata>>

NextSilver ==
    \/ SilverLaunch
    \/ SilverListFails
    \/ SilverStep
    \/ SilverFinish
    \/ SilverAgain
    \/ BronzeOverwrites

\* the gold stage is not running
GoldIdle ==
    /\ silver = <<>>
    /\ now = BaseDay * TicksPerDay
    /\ mode = "full"
    /\ pc = "done"
    /\ self_dimensions = EmptyDict
    /\ self_facts = EmptyDict
    /\ self_kpis = EmptyDict
    /\ out = EmptyDict
    /\ todo = <<>>
    /\ stats = ZeroStats
    /\ gold = EmptyDict
    /\ run = 0
    /\ built = <<>>
    /\ processed_files = EmptyDict
    /\ workers = <<>>
    /\ incoming = <<>>
    /\ BronzeIdle

\* some of the four blobs in the bronze container, and a metadata file that
\* is absent or records one of them
InitSilver ==
    /\ \E names \in SUBSET Range(BronzeListing) :
          /\ Cardinality(names) >= 2
          /\ bronze = [n \in names |-> BronzeContents[1]]
    /\ silver_metadata \in
          {EmptyDict} \cup {[n \in {m} |-> 2] : m \in DOMAIN bronze}
    /\ silver_container = EmptyDict
    /\ silver_processor = [pc |-> "idle", processed_files |-> EmptyDict,
                           queue |-> <<>>, stats |-> ZeroSilverStats,
                           runs |-> 0, overwrites |-> 0]
    /\ GoldIdle

SpecSilver == InitSilver /\ [][NextSilver]_vars

----------------------------------------------------------------------------
(* Claims about the silver stage *)

\* the file types of the chain that hold an underscore
UnderscoredTypes == {t \in BusinessTypes : Positions(t, Underscore) # {}}

\* the blob names made of a file type of the chain: the type itself or the
\* type and a tag, as a CSV file, at the root or in a directory
TypedNames ==
    {dir \o t \o tag \o CsvExtension :
        dir \in {<<>>, <<"d", Slash>>},
        t \in BusinessTypes,
        tag \in {<<>>, <<Underscore, "1">>}}

\* no such name has a file type with an underscore or selects such a branch
NoTypedNameSelects ==
    \A n \in TypedNames :
        /\ Positions(FileType(n), Underscore) = {}
        /\ BusinessBranch(FileType(n)) \notin UnderscoredTypes

\* C24: the order_items and supply_chain_metrics branches of the business
\* transformations are never selected: the file type of a blob name holds no
\* underscore, so no table written to the silver container, and no blob of the
\* bronze container, went or would go through either branch.
C24_UnderscoredBranchesNeverSelected ==
    /\ UnderscoredTypes = {TokOrderItems,
                           <<"s", "u", "p", "p", "l", "y", "_", "c", "h", "a", "i",
                             "n", "_", "m", "e", "t", "r", "i", "c", "s">>}
    /\ \A n \in DOMAIN bronze :
          /\ Positions(FileType(n), Underscore) = {}
          /\ BusinessBranch(FileType(n)) \notin UnderscoredTypes
    /\ \A path \in DOMAIN silver_container :
          silver_container[path].branch \notin UnderscoredTypes
    /\ NoTypedNameSelects

\* the order items blob and the supply chain metrics blob were both
\* transformed and written, neither through a branch of the chain
C24_Witness ==
    /\ SilverBlobName(NameBronzeOrderItems) \in DOMAIN silver_container
    /\ SilverBlobName(NameBronzeMetrics) \in DOMAIN silver_container
    /\ silver_container[SilverBlobName(NameBronzeOrderItems)].branch = NoBranch
    /\ silver_container[SilverBlobName(NameBronzeMetrics)].branch = NoBranch
    /\ \E path \in DOMAIN silver_container :
          silver_container[path].branch = TokOrders

----------------------------------------------------------------------------
(* One full run in which a stage's routine may fail inside *)

\* a performance file, with or without vehicle_id, and a vehicles file, with
\* or without make and model: the KPI stage raises on the first, the view
\* stage on the second
StageFaultContainers ==
    {<<Blob(NamePerformance, p), Blob(NameVehiclesA, v)>> :
        p \in Prefixes(PerformancePool) \cup Prefixes(PerformanceNoVehiclePool),
        v \in Prefixes(VehiclesPool) \cup Prefixes(VehiclesNoMakePool)}

InitStageFaults ==
    /\ silver \in StageFaultContainers
    /\ processed_files = EmptyDict
    /\ now \in AsOfs(0)
    /\ mode = "full"
    /\ InitProcessor

NextStageFaults ==
    \/ Next
    \/ CreateDimensionsFails
    \/ CreateFactsFails

SpecStageFaults == InitStageFaults /\ [][NextStageFaults]_vars

\* the count the statistics keep for the stage whose upload loop is at `at`
StageCount(s, at) ==
    CASE at = "upload_dimensions" -> s.dimensions_created
      [] at = "upload_facts" -> s.facts_created
      [] at = "upload_kpis" -> s.kpis_calculated
      [] at = "upload_views" -> s.views_created

\* a stage's routine has just returned nothing
StageYieldsNothing ==
    /\ pc' # pc
    /\ pc' \in UploadLoops
    /\ out' = EmptyDict

\* C25: a stage whose routine fails inside and returns an empty result is
\* recorded with a count of 0, uploads nothing and adds nothing to
\* failed_operations, which counts failed uploads only (the tables the stages
\* returned that are not in the gold container); and the run then stands at
\* the end of that stage's upload loop, where the next stage starts.
C25_FailedStageCountsNothing ==
    /\ [][StageYieldsNothing =>
             /\ StageCount(stats', pc') = 0
             /\ todo' = <<>>
             /\ stats'.failed_operations = stats.failed_operations
             /\ gold' = gold]_vars
    /\ [](pc = "done" =>
             stats.failed_operations + Cardinality(DOMAIN gold)
                = stats.dimensions_created + stats.facts_created
                     + stats.kpis_calculated + stats.views_created)

\* a finished run whose dimension stage failed on its listing and whose KPI
\* stage raised, with no failure counted, the facts built and uploaded after
\* the first failure, and nothing under the prefixes of the failed stages
C25_Witness ==
    /\ pc = "done"
    /\ stats.dimensions_created = 0
    /\ KpisRaise(self_facts)
    /\ stats.kpis_calculated = 0
    /\ stats.facts_created > 0
    /\ stats.failed_operations = 0
    /\ \E path \in DOMAIN gold : path[1] = "facts"
    /\ \A path \in DOMAIN gold : path[1] \notin {"dimensions", "kpis"}

----------------------------------------------------------------------------
(* gold_layer_launcher.main with --kpis-only *)

\* the KPI routine run on the facts of the silver container
KpisOnlyAfterFacts ==
    /\ pc = "idle"
    /\ mode = "kpis_only"
    /\ LET k == CalculateKpis(CreateFactTables(silver), silver)
       IN  /\ self_kpis' = k
           /\ out' = k
           /\ todo' = Keys(k, KpiOrder)
    /\ pc' = "upload_only"
    /\ UNCHANGED <<stages, processed_files, silver, now, mode, self_dimensions,
                   self_facts, stats, gold, run, built>>

\* processor._calculate_kpis() on the processor the launcher has just
\* constructed, whose self.facts is the empty dictionary of __init__
KpisOnly ==
    /\ pc = "idle"
    /\ mode = "kpis_only"
    /\ LET k == CalculateKpis(self_facts, silver)
       IN  /\ self_kpis' = IF KpisRaise(self_facts) THEN self_kpis ELSE k
           /\ out' = k
           /\ todo' = Keys(k, KpiOrder)
    /\ pc' = "upload_only"
    /\ UNCHANGED <<stages, processed_files, silver, now, mode, self_dimensions,
                   self_facts, stats, gold, run, built>>

UploadKpiOnly == mode = "kpis_only" /\ UploadOnlyStep("kpis")

NextKpisOnly == KpisOnly \/ UploadKpiOnly \/ Exit

InitKpisOnly ==
    /\ silver \in FullRunContainers
    /\ processed_files = EmptyDict
    /\ now \in AsOfs(0)
    /\ mode = "kpis_only"
    /\ InitProcessor

SpecKpisOnly == InitKpisOnly /\ [][NextKpisOnly]_vars

\* the KPIs that _calculate_kpis derives from self.facts
FactKpis == {"daily_revenue", "monthly_revenue", "vehicle_performance",
             "inventory_turnover"}

\* C26: the revenue, vehicle_performance and inventory_turnover KPIs come from
\* self.facts alone, which only _create_fact_tables fills: _calculate_kpis
\* called without it, as --kpis-only does, produces none of them whatever the
\* silver container holds; what it returns, and what reaches the gold
\* container, are the supply-chain KPIs of the container and nothing else.
C26_NoFactKpisWithoutFacts ==
    /\ self_facts = EmptyDict
    /\ pc # "idle" =>
          /\ DOMAIN out \cap FactKpis = {}
          /\ out = CalculateSupplyChainKpis(silver)
          /\ self_kpis = out
    /\ \A path \in DOMAIN gold :
          /\ path[1] = "kpis"
          /\ path[2] \in SupplyChainNames
          /\ gold[path] = out[path[2]]

\* the container holds files from which a run that builds the facts first
\* computes revenue KPIs, yet the finished --kpis-only run produced and
\* uploaded a supply-chain KPI only
C26_Witness ==
    /\ pc = "done"
    /\ mode = "kpis_only"
    /\ "daily_revenue" \in DOMAIN CalculateKpis(CreateFactTables(silver), silver)
    /\ DOMAIN out # {}
    /\ DOMAIN gold # {}

----------------------------------------------------------------------------
(* Claims about the loop of process_bronze_to_silver *)

\* a pass of the loop is taken
LoopPass ==
    /\ silver_processor.pc = "loop"
    /\ silver_processor.queue # <<>>
    /\ silver_processor'.queue = Tail(silver_processor.queue)

\* the blob a pass of the loop is about
PassBlob == Head(silver_processor.queue)

Stale(n) ==
    /\ SilverBlobName(n) \in DOMAIN silver_container
    /\ silver_container[SilverBlobName(n)].rows # DedupRows(bronze[n], {})

C28_EveryBlobCountedOnce ==
    LET st == silver_processor.stats
    IN  /\ st.total_bronze_files =
              st.processed_files + st.skipped_files + st.failed_files
                 + Len(silver_processor.queue)
        /\ silver_processor.pc = "done" =>
              st.total_bronze_files =
                 st.processed_files + st.skipped_files + st.failed_files

\* a finished run that processed a blob, skipped one and failed on one
C28_Witness ==
    /\ silver_processor.pc = "done"
    /\ silver_processor.stats.processed_files > 0
    /\ silver_processor.stats.skipped_files > 0
    /\ silver_processor.stats.failed_files > 0
    /\ silver_processor.stats.total_bronze_files = 3

----------------------------------------------------------------------------
(* The bronze stage: BronzeLayerProcessor.scan_and_upload_files *)

\* the number of values a digest may take
HashSpace == 251

\* _calculate_file_hash: a digest of the lines of the file, read in order
RECURSIVE Digest(_, _)
Digest(data, h) ==
    IF data = <<>> THEN h
    ELSE Digest(Tail(data), (h * 31 + Head(data) + 1) % HashSpace)

FileHash(data) == Digest(data, 7)

\* _validate_csv_file: the suffix is .csv and read_csv finds a row under the
\* header line
ValidCsv(file_name, data) ==
    /\ EndsWith(Lower(file_name), CsvExtension)
    /\ Len(data) >= 2

DigitChars == <<"0", "1", "2", "3", "4", "5", "6", "7", "8", "9">>

\* strftime of a number, zero padded to a width
RECURSIVE Digits(_, _)
Digits(n, width) ==
    IF width = 0 THEN <<>>
    ELSE Digits(n \div 10, width - 1) \o <<DigitChars[(n % 10) + 1]>>

\* the Python slice s[a:b], positions counted from 0
Slice(s, a, b) == SubSeq(s, a + 1, IF b < Len(s) THEN b ELSE Len(s))

\* the positions of the underscores of a name, ascending
Underscores(file_name) == SortedSeq(Positions(file_name, Underscore))

\* _get_blob_path: the date partition is cut out of the last but one field of
\* the file name when the name has three fields or more, and is the date of
\* the upload otherwise
GetBlobPath(file_name, at) ==
    LET us == Underscores(file_name)
        date_part == SubSeq(file_name, us[Len(us) - 1] + 1, us[Len(us)] - 1)
        today == Civil(DayOf(at))
        year == IF Len(us) >= 2 THEN Slice(date_part, 0, 4) ELSE Digits(today.year, 4)
        month == IF Len(us) >= 2 THEN Slice(date_part, 4, 6) ELSE Digits(today.month, 2)
        day == IF Len(us) >= 2 THEN Slice(date_part, 6, 8) ELSE Digits(today.day, 2)
    IN  <<"y", "e", "a", "r", "=">> \o year
           \o <<Slash, "m", "o", "n", "t", "h", "=">> \o month
           \o <<Slash, "d", "a", "y", "=">> \o day
           \o <<Slash>> \o file_name

NameRawOrders == <<"o", "r", "d", "e", "r", "s", "_", "a", ".", "c", "s", "v">>
NameRawFuel == <<"f", "u", "e", "l", "_", "2", "0", "2", "4", "0", "1", "1", "5", "_", "1", ".", "c", "s", "v">>
NameRawNotes == <<"f", "u", "e", "l", "_", "n", "o", "t", "e", "s", ".", "t", "x", "t">>

\* the order in which glob yields the files
RawListing == <<NameRawFuel, NameRawNotes, NameRawOrders>>

\* what a file may hold: a header line alone, or a header line and rows
RawContents == {<<0>>, <<0, 1>>, <<0, 1, 2>>}

MaxEdits == 1

ZeroBronzeStats ==
    [total_files |-> 0, new_files |-> 0, changed_files |-> 0,
     skipped_files |-> 0, failed_uploads |-> 0]

\* the launcher in scan mode constructs a processor, whose __init__ loads the
\* metadata file, and calls scan_and_upload_files, which globs the directory
ScanStart ==
    /\ bronze_processor.pc = "idle"
    /\ LET csv_files == SelectSeq(RawListing,
                           LAMBDA f : f \in DOMAIN raw_data
                                         /\ EndsWith(f, CsvExtension))
       IN  bronze_processor' = [bronze_processor EXCEPT
               !.pc = "loop",
               !.file_hashes = bronze_metadata,
               !.queue = csv_files,
               !.stats = [ZeroBronzeStats EXCEPT !.total_files = Len(csv_files)],
               !.previous = bronze_processor.stats,
               !.edits_before = bronze_processor.edits_at_start,
               !.edits_at_start = bronze_processor.edits]
    /\ UNCHANGED <<silver_stage, processor, silver, now, gold, workers, incoming,
                   raw_data, bronze_metadata, monitor>>

\* a pass of the loop that records the hash whether the upload succeeded or not
ScanStepRecordingFailures ==
    /\ bronze_processor.pc = "loop"
    /\ bronze_processor.queue # <<>>
    /\ LET file_path == Head(bronze_processor.queue)
           current_hash == FileHash(raw_data[file_path])
           hashes == bronze_processor.file_hashes
           skipped == [bronze_processor EXCEPT
                          !.queue = Tail(@), !.stats.skipped_files = @ + 1]
           counted == IF file_path \notin DOMAIN hashes
                      THEN [bronze_processor EXCEPT
                               !.queue = Tail(@), !.stats.new_files = @ + 1]
                      ELSE [bronze_processor EXCEPT
                               !.queue = Tail(@), !.stats.changed_files = @ + 1]
           recorded == [counted EXCEPT
                           !.file_hashes = Put(@, file_path, current_hash)]
       IN  IF ~ ValidCsv(file_path, raw_data[file_path])
           THEN bronze_processor' = skipped /\ bronze' = bronze
           ELSE IF file_path \in DOMAIN hashes /\ hashes[file_path] = current_hash
           THEN bronze_processor' = skipped /\ bronze' = bronze
           ELSE \/ /\ bronze' = Put(bronze, GetBlobPath(file_path, now),
                                    raw_data[file_path])
                   /\ bronze_processor' = recorded
                \/ /\ bronze' = bronze
                   /\ bronze_processor' = [recorded EXCEPT
                          !.stats.failed_uploads = @ + 1]
    /\ UNCHANGED <<silver_container, silver_processor, silver_metadata,
                   processor, silver, now, gold, workers, incoming,
                   raw_data, bronze_metadata, monitor>>

\* one pass of the loop over the CSV files: an invalid file and a file whose
\* hash is the recorded one are skipped; any other is counted new or changed
\* and uploaded, and its hash recorded, unless the upload fails
ScanStep ==
    /\ bronze_processor.pc = "loop"
    /\ bronze_processor.queue # <<>>
    /\ LET file_path == Head(bronze_processor.queue)
           current_hash == FileHash(raw_data[file_path])
           hashes == bronze_processor.file_hashes
           skipped == [bronze_processor EXCEPT
                          !.queue = Tail(@), !.stats.skipped_files = @ + 1]
           counted == IF file_path \notin DOMAIN hashes
                      THEN [bronze_processor EXCEPT
                               !.queue = Tail(@), !.stats.new_files = @ + 1]
                      ELSE [bronze_processor EXCEPT
                               !.queue = Tail(@), !.stats.changed_files = @ + 1]
       IN  IF ~ ValidCsv(file_path, raw_data[file_path])
           THEN bronze_processor' = skipped /\ bronze' = bronze
           ELSE IF file_path \in DOMAIN hashes /\ hashes[file_path] = current_hash
           THEN bronze_processor' = skipped /\ bronze' = bronze
           ELSE \/ /\ bronze' = Put(bronze, GetBlobPath(file_path, now),
                                    raw_data[file_path])
                   /\ bronze_processor' = [counted EXCEPT
                          !.file_hashes = Put(@, file_path, current_hash)]
                \/ /\ bronze' = bronze
                   /\ bronze_processor' = [counted EXCEPT
                          !.stats.failed_uploads = @ + 1]
    /\ UNCHANGED <<silver_container, silver_processor, silver_metadata,
                   processor, silver, now, gold, workers, incoming,
                   raw_data, bronze_metadata, monitor>>

\* the loop is over: _save_metadata, and the statistics are returned
ScanFinish ==
    /\ bronze_processor.pc = "loop"
    /\ bronze_processor.queue = <<>>
    /\ bronze_metadata' = bronze_processor.file_hashes
    /\ bronze_processor' = [bronze_processor EXCEPT !.pc = "done", !.scans = @ + 1]
    /\ UNCHANGED <<silver_stage, processor, silver, now, gold, workers, incoming,
                   raw_data, monitor>>

\* the launcher is started once more
ScanAgain ==
    /\ bronze_processor.pc = "done"
    /\ bronze_processor.scans < MaxRuns
    /\ bronze_processor' = [bronze_processor EXCEPT !.pc = "idle"]
    /\ UNCHANGED <<silver_stage, processor, silver, now, gold, workers, incoming,
                   raw_data, bronze_metadata, monitor>>

\* whoever produces the raw data rewrites a file
FileChanges ==
    /\ bronze_processor.edits < MaxEdits
    /\ \E f \in DOMAIN raw_data, data \in RawContents :
          /\ data # raw_data[f]
          /\ raw_data' = [raw_data EXCEPT ![f] = data]
    /\ bronze_processor' = [bronze_processor EXCEPT !.edits = @ + 1]
    /\ UNCHANGED <<silver_stage, processor, silver, now, gold, workers, incoming,
                   bronze_metadata, monitor>>

NextScan ==
    \/ ScanStart
    \/ ScanStep
    \/ ScanFinish
    \/ ScanAgain
    \/ FileChanges

\* the gold and silver stages are not running
LaterStagesIdle ==
    /\ silver = <<>>
    /\ now = BaseDay * TicksPerDay
    /\ mode = "full"
    /\ pc = "done"
    /\ self_dimensions = EmptyDict
    /\ self_facts = EmptyDict
    /\ self_kpis = EmptyDict
    /\ out = EmptyDict
    /\ todo = <<>>
    /\ stats = ZeroStats
    /\ gold = EmptyDict
    /\ run = 0
    /\ built = <<>>
    /\ processed_files = EmptyDict
    /\ workers = <<>>
    /\ incoming = <<>>
    /\ silver_container = <<>>
    /\ silver_processor = <<>>
    /\ silver_metadata = <<>>

\* three files in the directory, nothing uploaded yet
InitScan ==
    /\ raw_data \in [Range(RawListing) -> RawContents]
    /\ bronze = EmptyDict
    /\ bronze_metadata = EmptyDict
    /\ bronze_processor =
          [pc |-> "idle", file_hashes |-> EmptyDict, queue |-> <<>>,
           stats |-> ZeroBronzeStats, scans |-> 0, edits |-> 0,
           previous |-> ZeroBronzeStats, edits_before |-> 0, edits_at_start |-> 0]
    /\ monitor = <<>>
    /\ LaterStagesIdle

SpecScan == InitScan /\ [][NextScan]_vars

----------------------------------------------------------------------------
(* Claims about scan_and_upload_files *)

\* a pass of the loop over the CSV files is taken
ScanPass ==
    /\ bronze_processor.pc = "loop"
    /\ bronze_processor.queue # <<>>
    /\ bronze_processor'.queue = Tail(bronze_processor.queue)

----------------------------------------------------------------------------
(* The bronze monitor: BronzeLayerEventHandler.  The observer thread handles
   the file system events one after the other; every threading.Timer is a
   thread of its own, which calls _upload_file when its delay is over unless
   it was cancelled before.  A step is a statement of the handler. *)

MaxEvents == 3

\* the dictionary without a key
Without1(d, k) == [x \in (DOMAIN d) \ {k} |-> d[x]]

\* on_created, on_modified, on_moved: a file is written and the observer
\* thread is told; for a .csv path _schedule_upload starts by looking the
\* path up in pending_uploads
EventArrives ==
    /\ monitor.handler.pc = "idle"
    /\ monitor.events < MaxEvents
    /\ \E src_path \in Range(RawListing), data \in RawContents :
          /\ raw_data' = Put(raw_data, src_path, data)
          /\ monitor' = [monitor EXCEPT
                !.events = @ + 1,
                !.handler =
                    IF ~ EndsWith(src_path, CsvExtension)
                    THEN [pc |-> "idle", path |-> src_path, timer |-> 0]
                    ELSE IF src_path \in DOMAIN monitor.pending_uploads
                    THEN [pc |-> "cancel", path |-> src_path, timer |-> 0]
                    ELSE [pc |-> "start", path |-> src_path, timer |-> 0]]
    /\ UNCHANGED <<silver_stage, processor, silver, now, gold, workers, incoming,
                   bronze_processor, bronze_metadata>>

\* self.pending_uploads[str(file_path)].cancel(): a timer that has not fired
\* yet will not fire; on one that has, cancel() has no effect.  A path whose
\* entry was deleted since the lookup raises KeyError out of the handler.
ScheduleCancel ==
    /\ monitor.handler.pc = "cancel"
    /\ LET path == monitor.handler.path
       IN  IF path \in DOMAIN monitor.pending_uploads
           THEN LET t == monitor.pending_uploads[path]
                IN  monitor' = [monitor EXCEPT
                       !.timers[t].state =
                           IF @ = "waiting" THEN "cancelled" ELSE @,
                       !.handler.pc = "start"]
           ELSE monitor' = [monitor EXCEPT !.handler.pc = "raised"]
    /\ UNCHANGED <<silver_stage, processor, silver, now, gold, workers, incoming,
                   raw_data, bronze_processor, bronze_metadata>>

\* timer = threading.Timer(...); timer.start()
ScheduleStart ==
    /\ monitor.handler.pc = "start"
    /\ monitor' = [monitor EXCEPT
           !.timers = Append(@, [path |-> monitor.handler.path,
                                 state |-> "waiting"]),
           !.handler.timer = Len(monitor.timers) + 1,
           !.handler.pc = "record"]
    /\ UNCHANGED <<silver_stage, processor, silver, now, gold, workers, incoming,
                   raw_data, bronze_processor, bronze_metadata>>

\* self.pending_uploads[str(file_path)] = timer
ScheduleRecord ==
    /\ monitor.handler.pc = "record"
    /\ monitor' = [monitor EXCEPT
           !.pending_uploads = Put(@, monitor.handler.path, monitor.handler.timer),
           !.handler.pc = "idle"]
    /\ UNCHANGED <<silver_stage, processor, silver, now, gold, workers, incoming,
                   raw_data, bronze_processor, bronze_metadata>>

\* the delay of a timer is over: its thread calls _upload_file
TimerFires(t) ==
    /\ monitor.timers[t].state = "waiting"
    /\ monitor' = [monitor EXCEPT !.timers[t].state = "called"]
    /\ UNCHANGED <<silver_stage, processor, silver, now, gold, workers, incoming,
                   raw_data, bronze_processor, bronze_metadata>>

\* _upload_file: if str(file_path) in self.pending_uploads
UploadFileLooksUp(t) ==
    /\ monitor.timers[t].state = "called"
    /\ monitor' = [monitor EXCEPT !.timers[t].state =
           IF monitor.timers[t].path \in DOMAIN monitor.pending_uploads
           THEN "remove" ELSE "upload"]
    /\ UNCHANGED <<silver_stage, processor, silver, now, gold, workers, incoming,
                   raw_data, bronze_processor, bronze_metadata>>

\* _upload_file: del self.pending_uploads[str(file_path)], whichever timer
\* the entry names; a KeyError ends the callback in its except
UploadFileRemoves(t) ==
    /\ monitor.timers[t].state = "remove"
    /\ LET path == monitor.timers[t].path
       IN  IF path \in DOMAIN monitor.pending_uploads
           THEN monitor' = [monitor EXCEPT
                   !.pending_uploads = Without1(@, path),
                   !.timers[t].state = "upload"]
           ELSE monitor' = [monitor EXCEPT !.timers[t].state = "finished"]
    /\ UNCHANGED <<silver_stage, processor, silver, now, gold, workers, incoming,
                   raw_data, bronze_processor, bronze_metadata>>

\* _upload_file: a valid CSV file is uploaded, and on success its hash is
\* recorded and the metadata saved
UploadFileUploads(t) ==
    /\ monitor.timers[t].state = "upload"
    /\ monitor' = [monitor EXCEPT !.timers[t].state = "finished"]
    /\ LET path == monitor.timers[t].path
       IN  \/ /\ ValidCsv(path, raw_data[path])
              /\ bronze' = Put(bronze, GetBlobPath(path, now), raw_data[path])
              /\ bronze_processor' = [bronze_processor EXCEPT
                     !.file_hashes = Put(@, path, FileHash(raw_data[path]))]
              /\ bronze_metadata' = bronze_processor'.file_hashes
           \/ /\ UNCHANGED <<bronze, bronze_processor, bronze_metadata>>
    /\ UNCHANGED <<silver_container, silver_processor, silver_metadata, processor,
                   silver, now, gold, workers, incoming, raw_data>>

NextMonitor ==
    \/ EventArrives
    \/ ScheduleCancel
    \/ ScheduleStart
    \/ ScheduleRecord
    \/ \E t \in DOMAIN monitor.timers : TimerFires(t)
    \/ \E t \in DOMAIN monitor.timers : UploadFileLooksUp(t)
    \/ \E t \in DOMAIN monitor.timers : UploadFileRemoves(t)
    \/ \E t \in DOMAIN monitor.timers : UploadFileUploads(t)

\* the monitor was started on an empty directory: the initial scan found
\* nothing
InitMonitor ==
    /\ raw_data = EmptyDict
    /\ bronze = EmptyDict
    /\ bronze_metadata = EmptyDict
    /\ bronze_processor =
          [pc |-> "done", file_hashes |-> EmptyDict, queue |-> <<>>,
           stats |-> ZeroBronzeStats, scans |-> 1, edits |-> 0,
           previous |-> ZeroBronzeStats, edits_before |-> 0, edits_at_start |-> 0]
    /\ monitor = [pending_uploads |-> EmptyDict, timers |-> <<>>, events |-> 0,
                  handler |-> [pc |-> "idle", path |-> <<>>, timer |-> 0]]
    /\ LaterStagesIdle

SpecMonitor == InitMonitor /\ [][NextMonitor]_vars

\* the timers of a path that were started and have neither fired nor been
\* cancelled
PendingTimers(path) ==
    {t \in DOMAIN monitor.timers :
        monitor.timers[t].path = path /\ monitor.timers[t].state = "waiting"}

\* C30: at most one upload timer is pending for a file path at any time.
C30_OneTimerPendingPerPath ==
    \A path \in Range(RawListing) : Cardinality(PendingTimers(path)) <= 1

============================================================================
